---- MODULE Spec2Model ----
(***************************************************************************)
(* A model of the HR-assistant backend (eldavido7/hr-assistant-backend):   *)
(* the three ChromaDB collections and the service functions and routes     *)
(* that read and write them, resume retrieval, HR-text retrieval, the      *)
(* normalisation of the LLM's replies and the two chat webhooks.           *)
(*                                                                         *)
(* Python strings are sequences of characters; a few multi-letter words    *)
(* the code never looks inside ("answer", "json", "null") are one element. *)
(***************************************************************************)
EXTENDS Integers, Sequences, FiniteSets, TLC

VARIABLES
    resume_collection,       \* ChromaDB collection "resumes":      id -> record
    hr_collection,           \* ChromaDB collection "hr_documents": id -> record
    hr_insights_collection,  \* ChromaDB collection "hr_insights":  type -> number of records
    response,                \* what the last service call / route returned
    rr,                      \* the last retrieve_relevant_resumes / analyze-resume call
    rt,                      \* the last retrieve_relevant_text call
    pdr,                     \* the last process_deepseek_response call
    whatsapp_sessions,       \* ai_service.whatsapp_sessions: the sessions by phone number
    now,                     \* the wall clock, in hours
    threads,                 \* the request threads inside handle_whatsapp_request
    events,                  \* the message a chat handler finished with last, and its calls
    limiter                  \* flask-limiter's storage: client IP -> hits in its current window

storeVars == <<resume_collection, hr_collection, hr_insights_collection, response>>
chatVars == <<whatsapp_sessions, now, threads, events>>
vars == <<resume_collection, hr_collection, hr_insights_collection,
          response, rr, rt, pdr,
          whatsapp_sessions, now, threads, events, limiter>>

-----------------------------------------------------------------------------
(* Bounds of the model.                                                    *)

MaxTextLen == 2        \* characters in the text of an uploaded PDF
MaxUpload == 2         \* files in one multi-file upload
MaxTime == 1           \* distinct readings of time.time()
MaxStoreInsights == 2  \* insights in a data directory whose documents are deleted
MaxInsights == 101     \* insights stored by store_insight
MaxQueryLen == 3       \* characters in a resume query
MaxScore == 1          \* distinct distances the vector search reports, less one
MaxDocLen == 2         \* characters in a stored HR passage
MaxRawLen == 3         \* characters in a reply of JSON punctuation
MaxThreads == 2        \* request threads
MaxPhones == 1         \* phone numbers that send WhatsApp messages
MaxClock == 25         \* the latest reading of the clock, in hours
MaxCallers == 2        \* phone numbers whose calls run one after the other
MaxAnalyses == 3       \* insights the analysis routes store
MaxHits == 22          \* requests one client IP sends within one window
MaxClients == 2        \* client IP addresses

-----------------------------------------------------------------------------
(* Python str operations, on sequences of characters.                      *)

Whitespace == {" ", "\n"}
Letters ==
    {"a", "b", "c", "d", "e", "f", "g", "h", "i", "j", "k", "l", "m", "n", "o", "p", "q",
     "r", "s", "t", "u", "v", "w", "x", "y", "z", "A", "B", "N",
     "answer", "other", "json", "null", "ull", "None"}
Digits == {"0", "1", "2", "3", "4", "5", "6", "7", "8", "9"}
WordChars == Letters \cup Digits \cup {"_"}

Min(a, b) == IF a < b THEN a ELSE b

SeqsUpTo(S, n) == UNION {[1..k -> S] : k \in 0..n}

RECURSIVE LStrip(_)
LStrip(s) ==
    IF s # <<>> /\ Head(s) \in Whitespace THEN LStrip(Tail(s)) ELSE s

RECURSIVE RStrip(_)
RStrip(s) ==
    IF s # <<>> /\ s[Len(s)] \in Whitespace
    THEN RStrip(SubSeq(s, 1, Len(s) - 1))
    ELSE s

\* str.strip()
Strip(s) == RStrip(LStrip(s))

LowerChar(c) ==
    CASE c = "A" -> "a"
      [] c = "B" -> "b"
      [] c = "N" -> "n"
      [] OTHER -> c

\* str.lower()
Lower(s) == [i \in 1..Len(s) |-> LowerChar(s[i])]

\* s.startswith(p), s.endswith(p), p in s
StartsWith(s, p) == Len(p) <= Len(s) /\ SubSeq(s, 1, Len(p)) = p
EndsWith(s, p) == Len(p) <= Len(s) /\ SubSeq(s, Len(s) - Len(p) + 1, Len(s)) = p
Contains(s, p) == \E i \in 0..(Len(s) - Len(p)) : SubSeq(s, i + 1, i + Len(p)) = p

\* the least index at which p occurs in s, 0 when it does not
Find(s, p) ==
    IF Contains(s, p)
    THEN CHOOSE i \in 1..(Len(s) - Len(p) + 1) :
            /\ SubSeq(s, i, i + Len(p) - 1) = p
            /\ \A j \in 1..(i - 1) : SubSeq(s, j, j + Len(p) - 1) # p
    ELSE 0

\* s.replace(c, "") for a one-character c
RECURSIVE Remove(_, _)
Remove(s, c) ==
    IF s = <<>> THEN <<>>
    ELSE IF Head(s) = c THEN Remove(Tail(s), c)
    ELSE <<Head(s)>> \o Remove(Tail(s), c)

\* sep.join(list)
RECURSIVE Join(_, _)
Join(list, sep) ==
    IF list = <<>> THEN <<>>
    ELSE IF Len(list) = 1 THEN list[1]
    ELSE list[1] \o sep \o Join(Tail(list), sep)

-----------------------------------------------------------------------------
(* utils/resume_parser.py                                                  *)

\* A PDF as pdfplumber sees it: it opens or not, and its pages' text.
PdfChars == {"a", "b", "B", " ", "/"}
Pdfs == [ok : BOOLEAN, text : SeqsUpTo(PdfChars, MaxTextLen)]

extract_text_from_pdf(pdf) ==
    IF pdf.ok THEN Strip(pdf.text) ELSE <<>>

\* re.sub(r'\s+', ' ', text)
RECURSIVE CollapseSpaces(_)
CollapseSpaces(s) ==
    IF s = <<>> THEN <<>>
    ELSE IF Head(s) \in Whitespace
    THEN <<" ">> \o CollapseSpaces(LStrip(s))
    ELSE <<Head(s)>> \o CollapseSpaces(Tail(s))

\* re.sub(r'[^\w\s.,]', '', text)
RECURSIVE RemoveSpecial(_)
RemoveSpecial(s) ==
    IF s = <<>> THEN <<>>
    ELSE IF Head(s) \in WordChars \cup Whitespace \cup {".", ","}
    THEN <<Head(s)>> \o RemoveSpecial(Tail(s))
    ELSE RemoveSpecial(Tail(s))

clean_resume_text(text) == Strip(RemoveSpecial(CollapseSpaces(text)))

parse_resume(pdf) == clean_resume_text(extract_text_from_pdf(pdf))

-----------------------------------------------------------------------------
(* The ChromaDB client library, as document_service.py uses it.            *)
(* A collection is a function from record ids to records.                  *)

Filenames == {"f1", "f2"}
Times == 1..MaxTime
Outcomes == {"ok", "raise"}

EmptyCollection == <<>>

Ids(coll) == DOMAIN coll

\* collection.add(ids=[id], documents=[doc], metadatas=[meta]): a new id is
\* stored; an id the collection already holds is left as it is.
CollectionAdd(coll, id, doc, meta) ==
    IF id \in DOMAIN coll
    THEN coll
    ELSE [i \in DOMAIN coll \cup {id} |->
            IF i = id THEN [document |-> doc, metadata |-> meta] ELSE coll[i]]

\* collection.delete(ids=[id])
CollectionDeleteId(coll, id) ==
    [i \in DOMAIN coll \ {id} |-> coll[i]]

\* the where filter {key: {"$ne": value}} on one record's metadata; whether a
\* record that lacks the key matches depends on the installed store version
WhereNe(meta, key, value, matches_missing) ==
    IF key \in DOMAIN meta THEN meta[key] # value ELSE matches_missing

\* collection.delete(where={key: {"$ne": value}})
CollectionDeleteWhereNe(coll, key, value, matches_missing) ==
    [i \in {j \in DOMAIN coll :
                ~WhereNe(coll[j].metadata, key, value, matches_missing)} |-> coll[i]]

-----------------------------------------------------------------------------
(* services/document_service.py and main.py: storing documents.            *)

\* One uploaded file of a request, with what the environment does while it
\* is handled: the reading of time.time() and whether the store's add raises.
StorePdfs ==
    {pdf \in Pdfs : /\ pdf.text \in SeqsUpTo({"a", "b", "/"}, 1)
                    /\ (pdf.ok \/ pdf.text = <<>>)}
UploadedFiles == [filename : Filenames \cup {""}, pdf : StorePdfs,
                  add : Outcomes, ts : Times]

\* store_text_in_chromadb(text, metadata): always the resumes collection;
\* an exception of add is logged and swallowed.
store_text_in_chromadb(resumes, text, metadata, ts, add) ==
    LET meta == [k \in DOMAIN metadata \cup {"timestamp"} |->
                    IF k = "timestamp" THEN ts ELSE metadata[k]]
        doc_id == metadata.filename
    IN  IF add = "raise" THEN resumes
        ELSE CollectionAdd(resumes, doc_id, text, meta)

\* the loop of upload_resumes / upload_hr_documents over request.files
RECURSIVE UploadLoop(_, _, _, _)
UploadLoop(files, type, resumes, uploaded_files) ==
    IF files = <<>> THEN [resumes |-> resumes, uploaded_files |-> uploaded_files]
    ELSE LET file == Head(files)
             text == parse_resume(file.pdf)
         IN  IF file.filename = "" \/ text = <<>>
             THEN UploadLoop(Tail(files), type, resumes, uploaded_files)
             ELSE UploadLoop(Tail(files), type,
                    store_text_in_chromadb(resumes, text,
                        [filename |-> file.filename, type |-> type], file.ts, file.add),
                    Append(uploaded_files, file.filename))

\* POST /upload-resume
upload_resume(present, file) ==
    LET resume_text == parse_resume(file.pdf)
    IN  IF ~present THEN
            /\ response' = [op |-> "upload_resume", status |-> 400,
                            body |-> [error |-> "No file provided"]]
            /\ UNCHANGED resume_collection
        ELSE IF file.filename = "" THEN
            /\ response' = [op |-> "upload_resume", status |-> 400,
                            body |-> [error |-> "No selected file"]]
            /\ UNCHANGED resume_collection
        ELSE IF resume_text = <<>> THEN
            /\ response' = [op |-> "upload_resume", status |-> 400,
                            body |-> [error |-> "Failed to extract text from resume"]]
            /\ UNCHANGED resume_collection
        ELSE
            /\ resume_collection' = store_text_in_chromadb(resume_collection, resume_text,
                    [filename |-> file.filename, type |-> "resume"], file.ts, file.add)
            /\ response' = [op |-> "upload_resume", status |-> 200, filename |-> file.filename,
                            body |-> [message |-> "Resume uploaded and stored successfully",
                                      resume_text |-> resume_text]]

UploadResume ==
    /\ \E present \in BOOLEAN, file \in UploadedFiles : upload_resume(present, file)
    /\ UNCHANGED <<hr_collection, hr_insights_collection, rr, rt, pdr, chatVars, limiter>>

\* the body shared by POST /documents/upload-resumes and /documents/upload-hr-documents
UploadMany(op, type, no_valid, done, present, files) ==
    LET r == UploadLoop(files, type, resume_collection, <<>>)
    IN  IF ~present THEN
            /\ response' = [op |-> op, status |-> 400, body |-> [error |-> "No files provided"]]
            /\ UNCHANGED resume_collection
        ELSE IF files = <<>> THEN
            /\ response' = [op |-> op, status |-> 400, body |-> [error |-> "No files received"]]
            /\ UNCHANGED resume_collection
        ELSE IF r.uploaded_files = <<>> THEN
            /\ response' = [op |-> op, status |-> 400, body |-> [error |-> no_valid]]
            /\ resume_collection' = r.resumes
        ELSE
            /\ response' = [op |-> op, status |-> 200,
                            body |-> [message |-> done, uploaded_files |-> r.uploaded_files]]
            /\ resume_collection' = r.resumes

\* POST /documents/upload-resumes
upload_resumes(present, files) ==
    UploadMany("upload_resumes", "resume", "No valid resumes processed",
               "Resumes uploaded successfully", present, files)

UploadResumes ==
    /\ \E present \in BOOLEAN, files \in SeqsUpTo(UploadedFiles, MaxUpload) :
            upload_resumes(present, files)
    /\ UNCHANGED <<hr_collection, hr_insights_collection, rr, rt, pdr, chatVars, limiter>>

\* POST /documents/upload-hr-documents
upload_hr_documents(present, files) ==
    UploadMany("upload_hr_documents", "hr_document", "No valid HR documents processed",
               "HR documents uploaded successfully", present, files)

UploadHrDocuments ==
    /\ \E present \in BOOLEAN, files \in SeqsUpTo(UploadedFiles, MaxUpload) :
            upload_hr_documents(present, files)
    /\ UNCHANGED <<hr_collection, hr_insights_collection, rr, rt, pdr, chatVars, limiter>>

\* save_hr_document(file_path, file_name): the hr_documents collection; an
\* exception of add is not caught here.
save_hr_document(hr, file) ==
    LET document_text == parse_resume(file.pdf)
    IN  IF Strip(document_text) = <<>>
        THEN [hr |-> hr, raised |-> FALSE,
              result |-> [error |-> "The document is empty or could not be processed."]]
        ELSE IF file.add = "raise"
        THEN [hr |-> hr, raised |-> TRUE, result |-> [error |-> "exception"]]
        ELSE [hr |-> CollectionAdd(hr, file.filename, document_text,
                                   [filename |-> file.filename]),
              raised |-> FALSE,
              result |-> [message |-> "HR document uploaded successfully."]]

\* the loop of save_bulk_hr_documents(files)
RECURSIVE SaveBulkLoop(_, _, _)
SaveBulkLoop(files, hr, uploaded_files) ==
    IF files = <<>>
    THEN [hr |-> hr, uploaded_files |-> uploaded_files, raised |-> FALSE]
    ELSE LET file == Head(files)
             saved == save_hr_document(hr, file)
         IN  IF file.filename = "" \/ Strip(parse_resume(file.pdf)) = <<>>
             THEN SaveBulkLoop(Tail(files), hr, uploaded_files)
             ELSE IF saved.raised
             THEN [hr |-> saved.hr, uploaded_files |-> uploaded_files, raised |-> TRUE]
             ELSE SaveBulkLoop(Tail(files), saved.hr,
                    IF "message" \in DOMAIN saved.result
                    THEN Append(uploaded_files, file.filename)
                    ELSE uploaded_files)

save_bulk_hr_documents(files) ==
    LET r == SaveBulkLoop(files, hr_collection, <<>>)
    IN  /\ hr_collection' = r.hr
        /\ response' =
            IF r.raised
            THEN [op |-> "save_bulk_hr_documents", status |-> 500,
                  body |-> [error |-> "exception"]]
            ELSE IF r.uploaded_files = <<>>
            THEN [op |-> "save_bulk_hr_documents", status |-> 200,
                  body |-> [error |-> "No valid HR documents processed"]]
            ELSE [op |-> "save_bulk_hr_documents", status |-> 200,
                  body |-> [message |-> "HR documents uploaded successfully",
                            uploaded_files |-> r.uploaded_files]]

SaveBulkHrDocuments ==
    /\ \E files \in SeqsUpTo(UploadedFiles, MaxUpload) : save_bulk_hr_documents(files)
    /\ UNCHANGED <<resume_collection, hr_insights_collection, rr, rt, pdr, chatVars, limiter>>

-----------------------------------------------------------------------------
(* Listing, deleting and clearing.                                         *)

\* collection.get()["ids"], as a set
list_resumes == [resumes |-> Ids(resume_collection)]

list_hr_documents == [hr_documents |-> Ids(hr_collection)]

\* GET /documents/list-resumes
ListResumes ==
    /\ response' = [op |-> "list_resumes", status |-> 200, body |-> list_resumes]
    /\ UNCHANGED <<resume_collection, hr_collection, hr_insights_collection,
                   rr, rt, pdr, chatVars, limiter>>

\* GET /documents/list-hr-documents
ListHrDocuments ==
    /\ response' = [op |-> "list_hr_documents", status |-> 200, body |-> list_hr_documents]
    /\ UNCHANGED <<resume_collection, hr_collection, hr_insights_collection,
                   rr, rt, pdr, chatVars, limiter>>

\* delete_resume(filename) / delete_hr_document(filename) on their collection:
\* the new collection and the dict returned
DeleteFrom(coll, filename, outcome, done, failed) ==
    IF outcome = "raise"
    THEN [coll |-> coll, result |-> [error |-> failed]]
    ELSE [coll |-> CollectionDeleteId(coll, filename),
          result |-> [message |-> done, filename |-> filename]]

DeleteResumeClearsAll(resumes, filename, outcome) ==
    [coll |-> EmptyCollection,
     result |-> [message |-> "Resume '{filename}' deleted successfully.",
                 filename |-> filename]]

delete_resume(resumes, filename, outcome) ==
    DeleteFrom(resumes, filename, outcome,
               "Resume '{filename}' deleted successfully.", "Failed to delete resume")

delete_hr_document(hr, filename, outcome) ==
    DeleteFrom(hr, filename, outcome,
               "HR document '{filename}' deleted successfully.",
               "Failed to delete HR document")

\* DELETE /documents/delete-resume
delete_resume_endpoint(filename, outcome) ==
    LET r == delete_resume(resume_collection, filename, outcome)
    IN  IF filename = ""
        THEN /\ response' = [op |-> "delete_resume", status |-> 400,
                             body |-> [error |-> "Filename is required."]]
             /\ UNCHANGED resume_collection
        ELSE /\ response' = [op |-> "delete_resume", status |-> 200, body |-> r.result]
             /\ resume_collection' = r.coll

DeleteResume ==
    /\ \E filename \in Filenames \cup {""}, outcome \in Outcomes :
            delete_resume_endpoint(filename, outcome)
    /\ UNCHANGED <<hr_collection, hr_insights_collection, rr, rt, pdr, chatVars, limiter>>

\* DELETE /documents/delete-hr-document
delete_hr_document_endpoint(filename, outcome) ==
    LET r == delete_hr_document(hr_collection, filename, outcome)
    IN  IF filename = ""
        THEN /\ response' = [op |-> "delete_hr_document", status |-> 400,
                             body |-> [error |-> "Filename is required."]]
             /\ UNCHANGED hr_collection
        ELSE /\ response' = [op |-> "delete_hr_document", status |-> 200, body |-> r.result]
             /\ hr_collection' = r.coll

DeleteHrDocument ==
    /\ \E filename \in Filenames \cup {""}, outcome \in Outcomes :
            delete_hr_document_endpoint(filename, outcome)
    /\ UNCHANGED <<resume_collection, hr_insights_collection, rr, rt, pdr, chatVars, limiter>>

\* the body shared by clear_resumes() and clear_hr_documents(): delete with a
\* where filter on the metadata key "document_id"
ClearCollection(coll, outcome, ne_matches_missing, done, failed) ==
    IF outcome = "raise"
    THEN [coll |-> coll, result |-> [error |-> failed]]
    ELSE [coll |-> CollectionDeleteWhereNe(coll, "document_id", "", ne_matches_missing),
          result |-> [message |-> done]]

clear_resumes(outcome, ne_matches_missing) ==
    ClearCollection(resume_collection, outcome, ne_matches_missing,
                    "All resumes deleted successfully.", "Failed to clear resumes")

clear_hr_documents(outcome, ne_matches_missing) ==
    ClearCollection(hr_collection, outcome, ne_matches_missing,
                    "All HR documents deleted successfully.", "Failed to clear HR documents")

\* DELETE /documents/clear-resumes
ClearResumes ==
    /\ \E outcome \in Outcomes, ne_matches_missing \in BOOLEAN :
        LET r == clear_resumes(outcome, ne_matches_missing)
        IN  /\ resume_collection' = r.coll
            /\ response' = [op |-> "clear_resumes", status |-> 200, body |-> r.result]
    /\ UNCHANGED <<hr_collection, hr_insights_collection, rr, rt, pdr, chatVars, limiter>>

\* DELETE /documents/clear-hr-documents
ClearHrDocuments ==
    /\ \E outcome \in Outcomes, ne_matches_missing \in BOOLEAN :
        LET r == clear_hr_documents(outcome, ne_matches_missing)
        IN  /\ hr_collection' = r.coll
            /\ response' = [op |-> "clear_hr_documents", status |-> 200, body |-> r.result]
    /\ UNCHANGED <<resume_collection, hr_insights_collection, rr, rt, pdr, chatVars, limiter>>

-----------------------------------------------------------------------------
(* HR insights.  store_insight gives every record a fresh uuid4 id and the *)
(* metadata {type, timestamp}, so the collection is modelled as the number *)
(* of records of each type.                                                *)

InsightTypes == {"retention", "sentiment", "engagement"}
INSIGHTS_N_RESULTS == 100
NoInsights == [t \in InsightTypes |-> 0]

InsightCount(bag) == bag["retention"] + bag["sentiment"] + bag["engagement"]

InsightMetadata(t) == [type |-> t, timestamp |-> 1]

\* store_insight(insight_type, data): data that is not a str makes add raise;
\* an exception of add is logged and swallowed.
store_insight(insights, insight_type, data_is_str, add) ==
    IF add = "raise" \/ ~data_is_str
    THEN insights
    ELSE [insights EXCEPT ![insight_type] = @ + 1]

StoreInsight(limit) ==
    /\ InsightCount(hr_insights_collection) < limit
    /\ \E insight_type \in InsightTypes, data_is_str \in BOOLEAN, add \in Outcomes :
        /\ hr_insights_collection' =
                store_insight(hr_insights_collection, insight_type, data_is_str, add)
        /\ response' = [op |-> "store_insight", status |-> 200,
                        body |-> [type |-> insight_type]]
    /\ UNCHANGED <<resume_collection, hr_collection, rr, rt, pdr, chatVars, limiter>>

\* collection.query(query_texts=[q], n_results=n): the n nearest records, all
\* of them when the collection holds at most n.  Which ones are nearest is
\* the embedding's business: every choice of the records left out.
QueryInsights(insights, n) ==
    LET excess == InsightCount(insights) - n
    IN  IF excess <= 0 THEN {insights}
        ELSE {[t \in InsightTypes |-> insights[t] - d[t]] :
                d \in {e \in [InsightTypes -> 0..excess] :
                         /\ InsightCount(e) = excess
                         /\ \A t \in InsightTypes : e[t] <= insights[t]}}

FilterInsightsKeepsAll(found, insight_type) == found

\* the last step of get_insights: keep the insights whose metadata type is
\* insight_type
FilterInsights(found, insight_type) ==
    [t \in InsightTypes |->
        IF InsightMetadata(t).type = insight_type THEN found[t] ELSE 0]

\* get_insights(insight_type) on the records the query found; None and ""
\* both mean no type
get_insights(found, insight_type) ==
    IF insight_type \in {"None", ""}
    THEN found
    ELSE FilterInsights(found, insight_type)

\* GET /get-insights
GetInsights ==
    /\ \E insight_type \in InsightTypes \cup {"None", "", "salary"} :
       \E found \in QueryInsights(hr_insights_collection, INSIGHTS_N_RESULTS) :
            response' = [op |-> "get_insights", status |-> 200, type |-> insight_type,
                         body |-> [insights |-> get_insights(found, insight_type)]]
    /\ UNCHANGED <<resume_collection, hr_collection, hr_insights_collection,
                   rr, rt, pdr, chatVars, limiter>>

\* clear_insights(): the same where filter on the metadata key "document_id"
clear_insights(insights, outcome, ne_matches_missing) ==
    IF outcome = "raise"
    THEN [coll |-> insights, result |-> [error |-> "Failed to clear HR insights"]]
    ELSE [coll |-> [t \in InsightTypes |->
                        IF WhereNe(InsightMetadata(t), "document_id", "", ne_matches_missing)
                        THEN 0 ELSE insights[t]],
          result |-> [message |-> "All insights cleared successfully."]]

\* DELETE /documents/clear-insights
ClearInsights ==
    /\ \E outcome \in Outcomes, ne_matches_missing \in BOOLEAN :
        LET r == clear_insights(hr_insights_collection, outcome, ne_matches_missing)
        IN  /\ hr_insights_collection' = r.coll
            /\ response' = [op |-> "clear_insights", status |-> 200, body |-> r.result]
    /\ UNCHANGED <<resume_collection, hr_collection, rr, rt, pdr, chatVars, limiter>>

-----------------------------------------------------------------------------
(* services/document_service.py: resume retrieval.                         *)

RESUME_N_RESULTS == 10

\* the stopwords of extract_keywords
Stopwords ==
    { <<"f", "i", "n", "d">>, <<"m", "e">>, <<"a">>, <<"a", "n">>, <<"t", "h", "e">>,
      <<"w", "i", "t", "h">>, <<"y", "e", "a", "r", "s">>,
      <<"e", "x", "p", "e", "r", "i", "e", "n", "c", "e">>,
      <<"d", "e", "v", "e", "l", "o", "p", "e", "r">>,
      <<"e", "n", "g", "i", "n", "e", "e", "r">>, <<"f", "o", "r">>, <<"o", "f">> }

\* the longest prefix of s made of word characters
RECURSIVE WordPrefix(_)
WordPrefix(s) ==
    IF s # <<>> /\ Head(s) \in WordChars
    THEN <<Head(s)>> \o WordPrefix(Tail(s))
    ELSE <<>>

\* re.findall(r"\b\w+\b", s): the maximal runs of word characters, in order
RECURSIVE FindWords(_)
FindWords(s) ==
    IF s = <<>> THEN <<>>
    ELSE IF Head(s) \notin WordChars THEN FindWords(Tail(s))
    ELSE LET w == WordPrefix(s)
         IN  <<w>> \o FindWords(SubSeq(s, Len(w) + 1, Len(s)))

\* [word for word in words if word not in stopwords]
DropStopwords(words) == SelectSeq(words, LAMBDA w : w \notin Stopwords)

KeywordsWithStopwords(query) == FindWords(Lower(query))

extract_keywords(query) == DropStopwords(FindWords(Lower(query)))

\* any(keyword in resume_text.lower() for keyword in keywords)
HasKeyword(resume_text, keywords) ==
    \E k \in DOMAIN keywords : Contains(Lower(resume_text), keywords[k])

\* list.sort(key=score) is stable: x goes behind every element whose score
\* is not larger
InsertByScore(sorted, x) ==
    LET before == SelectSeq(sorted, LAMBDA y : y.score <= x.score)
        after == SelectSeq(sorted, LAMBDA y : y.score > x.score)
    IN  before \o <<x>> \o after

RECURSIVE SortByScore(_)
SortByScore(list) ==
    IF list = <<>> THEN <<>>
    ELSE InsertByScore(SortByScore(SubSeq(list, 1, Len(list) - 1)), list[Len(list)])

SortSkipped(list) == list

\* retrieved_resumes.sort(key=lambda x: x["score"])
SortResumes(list) == SortByScore(list)

\* retrieve_relevant_resumes(query), given the hits of the vector search in
\* the order the store reports them
retrieve_relevant_resumes(query, hits) ==
    LET keywords == extract_keywords(query)
        retrieved_resumes == SelectSeq(hits, LAMBDA h : HasKeyword(h.text, keywords))
    IN  SortResumes(retrieved_resumes)

\* resume_collection.query(query_texts=[query], n_results=10): up to 10 of
\* the stored records, in any order, each with a distance
Scores == 0..MaxScore

Orderings(S) ==
    {p \in [1..Cardinality(S) -> S] : \A i, j \in 1..Cardinality(S) : p[i] = p[j] => i = j}

QueryResumes(coll) ==
    UNION {
        UNION { {[i \in DOMAIN p |-> [text |-> coll[p[i]].document,
                                        metadata |-> coll[p[i]].metadata,
                                        score |-> d[i]]] :
                    d \in [DOMAIN p -> Scores]} :
                p \in Orderings(S)} :
        S \in {T \in SUBSET DOMAIN coll :
                Cardinality(T) = Min(RESUME_N_RESULTS, Cardinality(DOMAIN coll))}}

Queries == SeqsUpTo({"a", "n", "b", "B", " "}, MaxQueryLen)

\* a call of the service function retrieve_relevant_resumes(query), for the
\* query under study
RetrieveRelevantResumes ==
    /\ \E hits \in QueryResumes(resume_collection) :
            rr' = [op |-> "retrieve_relevant_resumes", query |-> rr.query, hits |-> hits,
                   resumes |-> retrieve_relevant_resumes(rr.query, hits)]
    /\ UNCHANGED <<storeVars, rt, pdr, chatVars, limiter>>

-----------------------------------------------------------------------------
(* services/document_service.py: retrieval of HR text.                     *)

HR_N_RESULTS == 3
MIN_CONTENT_LENGTH == 10

NA == <<"N", "/", "A">>
NANA == <<"N", "/", "A", " ", "N", "/", "A">>

\* hr_collection.query(query_texts=[query], n_results=3): the documents of up
\* to 3 of the stored records, in any order
QueryHr(coll) ==
    UNION { {[i \in DOMAIN p |-> coll[p[i]].document] : p \in Orderings(S)} :
            S \in {T \in SUBSET DOMAIN coll :
                    Cardinality(T) = Min(HR_N_RESULTS, Cardinality(DOMAIN coll))}}

\* doc and doc.strip() and doc.strip() not in ["N/A", "N/A N/A"]
IsRelevantText(doc) ==
    /\ doc # <<>>
    /\ Strip(doc) # <<>>
    /\ Strip(doc) \notin {NA, NANA}

\* What the store does during one call: count() raises, or query() raises,
\* or query() reports documents.
StoreAnswers(coll) ==
    {[kind |-> "count_raises"], [kind |-> "query_raises"]}
        \cup {[kind |-> "documents", docs |-> d] : d \in QueryHr(coll)}

\* the try block of retrieve_relevant_text
RetrieveTextBody(coll, store) ==
    IF store.kind = "count_raises"
    THEN [raised |-> TRUE, queried |-> FALSE, value |-> <<>>]
    ELSE IF Cardinality(DOMAIN coll) = 0
    THEN [raised |-> FALSE, queried |-> FALSE, value |-> <<>>]
    ELSE IF store.kind = "query_raises"
    THEN [raised |-> TRUE, queried |-> TRUE, value |-> <<>>]
    ELSE LET relevant_texts == SelectSeq(store.docs, IsRelevantText)
             combined_text == Join(relevant_texts, <<"\n", "\n">>)
         IN  IF relevant_texts = <<>>
             THEN [raised |-> FALSE, queried |-> TRUE, value |-> <<>>]
             ELSE IF Len(Strip(combined_text)) < MIN_CONTENT_LENGTH
             THEN [raised |-> FALSE, queried |-> TRUE, value |-> <<>>]
             ELSE [raised |-> FALSE, queried |-> TRUE, value |-> combined_text]

ExceptMissing(r) == r

\* except Exception: return ""
CatchRetrieveErrors(r) ==
    IF r.raised THEN [raised |-> FALSE, queried |-> r.queried, value |-> <<>>] ELSE r

retrieve_relevant_text(coll, store) ==
    CatchRetrieveErrors(RetrieveTextBody(coll, store))

\* a call of retrieve_relevant_text(query)
RetrieveRelevantText ==
    /\ \E store \in StoreAnswers(hr_collection) :
        LET r == retrieve_relevant_text(hr_collection, store)
        IN  rt' = [op |-> "retrieve_relevant_text", store |-> store,
                   queried |-> r.queried, raised |-> r.raised, value |-> r.value]
    /\ UNCHANGED <<storeVars, rr, pdr, chatVars, limiter>>

-----------------------------------------------------------------------------
(* Python values, json.dumps, json.loads and str(), as ai_service.py uses  *)
(* them.  A value is a record: t its type, s the characters of a str, n    *)
(* the value of an int, kv the items of a dict (key k, value v) or of a    *)
(* list (value v).                                                         *)

PyNone == [t |-> "none", s |-> <<>>, n |-> 0, kv |-> <<>>]
PyStr(s) == [t |-> "str", s |-> s, n |-> 0, kv |-> <<>>]
PyNum(n) == [t |-> "num", s |-> <<>>, n |-> n, kv |-> <<>>]
PyList(items) ==
    [t |-> "list", s |-> <<>>, n |-> 0,
     kv |-> [i \in DOMAIN items |-> [k |-> <<>>, v |-> items[i]]]]
PyDict(kv) == [t |-> "dict", s |-> <<>>, n |-> 0, kv |-> kv]
Item(key, value) == [k |-> key, v |-> value]

IsStr(v) == v.t = "str"
IsDict(v) == v.t = "dict"
IsList(v) == v.t = "list"

\* bool(v)
Truthy(v) ==
    CASE v.t = "none" -> FALSE
      [] v.t = "str" -> v.s # <<>>
      [] v.t = "num" -> v.n # 0
      [] OTHER -> v.kv # <<>>

\* key in d, d[key] for a dict d
DictHas(d, key) == \E i \in DOMAIN d.kv : d.kv[i].k = key
DictGet(d, key) == d.kv[CHOOSE i \in DOMAIN d.kv : d.kv[i].k = key].v

\* d[key] = value: a key the dict holds keeps its place
DictSet(kv, key, value) ==
    IF \E i \in DOMAIN kv : kv[i].k = key
    THEN [i \in DOMAIN kv |-> IF kv[i].k = key THEN Item(key, value) ELSE kv[i]]
    ELSE Append(kv, Item(key, value))

ANSWER == <<"answer">>
Q == "\""
BS == "\\"
\* the three backquotes of a Markdown code fence, one element
FENCE == "fence"
FENCE_JSON == <<FENCE, "json">>

\* a fenced block of JSON text
Fenced(s) == FENCE_JSON \o <<"\n">> \o s \o <<"\n", FENCE>>

DigitChars == <<"0", "1", "2", "3", "4", "5", "6", "7", "8", "9">>
DigitValue(c) == (CHOOSE i \in DOMAIN DigitChars : DigitChars[i] = c) - 1

\* str(n) for an int n >= 0
RECURSIVE NumChars(_)
NumChars(n) ==
    IF n < 10 THEN <<DigitChars[n + 1]>>
    ELSE NumChars(n \div 10) \o <<DigitChars[(n % 10) + 1]>>

\* the body of a JSON string literal: quote, backslash and newline escaped
RECURSIVE JsonEscape(_)
JsonEscape(s) ==
    IF s = <<>> THEN <<>>
    ELSE (CASE Head(s) = Q -> <<BS, Q>>
            [] Head(s) = BS -> <<BS, BS>>
            [] Head(s) = "\n" -> <<BS, "n">>
            [] OTHER -> <<Head(s)>>) \o JsonEscape(Tail(s))

\* json.dumps(v), with the default separators ", " and ": "
RECURSIVE Dumps(_)
Dumps(v) ==
    CASE v.t = "none" -> <<"null">>
      [] v.t = "num" -> NumChars(v.n)
      [] v.t = "str" -> <<Q>> \o JsonEscape(v.s) \o <<Q>>
      [] v.t = "list" ->
            <<"[">> \o Join([i \in DOMAIN v.kv |-> Dumps(v.kv[i].v)], <<",", " ">>) \o <<"]">>
      [] OTHER ->
            <<"{">> \o Join([i \in DOMAIN v.kv |->
                                <<Q>> \o JsonEscape(v.kv[i].k) \o <<Q, ":", " ">>
                                    \o Dumps(v.kv[i].v)],
                            <<",", " ">>) \o <<"}">>

\* the body of repr(s) for a str without single quotes
RECURSIVE ReprEscape(_)
ReprEscape(s) ==
    IF s = <<>> THEN <<>>
    ELSE (CASE Head(s) = BS -> <<BS, BS>>
            [] Head(s) = "\n" -> <<BS, "n">>
            [] OTHER -> <<Head(s)>>) \o ReprEscape(Tail(s))

\* repr(v)
RECURSIVE Repr(_)
Repr(v) ==
    CASE v.t = "none" -> <<"None">>
      [] v.t = "num" -> NumChars(v.n)
      [] v.t = "str" -> <<"'">> \o ReprEscape(v.s) \o <<"'">>
      [] v.t = "list" ->
            <<"[">> \o Join([i \in DOMAIN v.kv |-> Repr(v.kv[i].v)], <<",", " ">>) \o <<"]">>
      [] OTHER ->
            <<"{">> \o Join([i \in DOMAIN v.kv |->
                                <<"'">> \o ReprEscape(v.kv[i].k) \o <<"'", ":", " ">>
                                    \o Repr(v.kv[i].v)],
                            <<",", " ">>) \o <<"}">>

\* str(v)
Str(v) == IF IsStr(v) THEN v.s ELSE Repr(v)

\* json.loads.  A parse step answers [ok, v, pos]: whether it succeeded, the
\* value, and the position behind it.
ParseFail == [ok |-> FALSE, v |-> PyNone, pos |-> 0]
ParseOk(v, pos) == [ok |-> TRUE, v |-> v, pos |-> pos]

RECURSIVE SkipWs(_, _)
SkipWs(s, i) ==
    IF i <= Len(s) /\ s[i] \in Whitespace THEN SkipWs(s, i + 1) ELSE i

\* the characters of a string literal from position i (behind the opening
\* quote) to the closing quote; a raw newline or an unknown escape is an error
RECURSIVE ScanString(_, _, _)
ScanString(s, i, acc) ==
    IF i > Len(s) THEN ParseFail
    ELSE IF s[i] = Q THEN ParseOk(PyStr(acc), i + 1)
    ELSE IF s[i] = "\n" THEN ParseFail
    ELSE IF s[i] = BS
    THEN IF i + 1 > Len(s) THEN ParseFail
         ELSE IF s[i + 1] \in {Q, BS} THEN ScanString(s, i + 2, Append(acc, s[i + 1]))
         ELSE IF s[i + 1] = "n" THEN ScanString(s, i + 2, Append(acc, "\n"))
         ELSE IF s[i + 1] = "null" THEN ScanString(s, i + 2, acc \o <<"\n", "ull">>)
         ELSE ParseFail
    ELSE ScanString(s, i + 1, Append(acc, s[i]))

\* an int literal at position i: a single 0, or digits not starting with 0
RECURSIVE ScanNumber(_, _, _)
ScanNumber(s, i, n) ==
    IF i <= Len(s) /\ s[i] \in Digits
    THEN ScanNumber(s, i + 1, 10 * n + DigitValue(s[i]))
    ELSE ParseOk(PyNum(n), i)

RECURSIVE ParseValue(_, _)
RECURSIVE ParseMembers(_, _, _)
RECURSIVE ParseElements(_, _, _)

\* behind a member of an object: the closing brace, or a comma and the next
MemberEnd(s, kv, e) ==
    IF e > Len(s) THEN ParseFail
    ELSE IF s[e] = "}" THEN ParseOk(PyDict(kv), e + 1)
    ELSE IF s[e] = "," THEN ParseMembers(s, e + 1, kv)
    ELSE ParseFail

\* behind the value of the member with this key
AfterMemberValue(s, kv, key, val) ==
    IF val.ok THEN MemberEnd(s, DictSet(kv, key, val.v), SkipWs(s, val.pos)) ELSE ParseFail

\* behind the key of a member: a colon and the value
AfterKey(s, kv, key, c) ==
    IF c <= Len(s) /\ s[c] = ":"
    THEN AfterMemberValue(s, kv, key, ParseValue(s, c + 1))
    ELSE ParseFail

\* the key of a member, scanned
MemberKey(s, kv, key) ==
    IF key.ok THEN AfterKey(s, kv, key.v.s, SkipWs(s, key.pos)) ELSE ParseFail

\* a member of an object at position j
MemberAt(s, kv, j) ==
    IF j <= Len(s) /\ s[j] = Q THEN MemberKey(s, kv, ScanString(s, j + 1, <<>>)) ELSE ParseFail

\* the members of an object from position i, where the first member's key is
ParseMembers(s, i, kv) == MemberAt(s, kv, SkipWs(s, i))

\* behind an element of an array: the closing bracket, or a comma and the next
ElementEnd(s, items, e) ==
    IF e > Len(s) THEN ParseFail
    ELSE IF s[e] = "]" THEN ParseOk(PyList(items), e + 1)
    ELSE IF s[e] = "," THEN ParseElements(s, e + 1, items)
    ELSE ParseFail

\* behind the value of an element
AfterElement(s, items, val) ==
    IF val.ok THEN ElementEnd(s, Append(items, val.v), SkipWs(s, val.pos)) ELSE ParseFail

\* the elements of an array from position i, where the first element is
ParseElements(s, i, items) == AfterElement(s, items, ParseValue(s, i))

\* an object whose opening brace is before position k
ObjectAt(s, k) ==
    IF k <= Len(s) /\ s[k] = "}" THEN ParseOk(PyDict(<<>>), k + 1)
    ELSE ParseMembers(s, k, <<>>)

\* an array whose opening bracket is before position k
ArrayAt(s, k) ==
    IF k <= Len(s) /\ s[k] = "]" THEN ParseOk(PyList(<<>>), k + 1)
    ELSE ParseElements(s, k, <<>>)

\* the value at position j
ValueAt(s, j) ==
    IF j > Len(s) THEN ParseFail
    ELSE IF s[j] = Q THEN ScanString(s, j + 1, <<>>)
    ELSE IF s[j] = "null" THEN ParseOk(PyNone, j + 1)
    ELSE IF s[j] = "0" THEN ParseOk(PyNum(0), j + 1)
    ELSE IF s[j] \in Digits THEN ScanNumber(s, j, 0)
    ELSE IF s[j] = "{" THEN ObjectAt(s, SkipWs(s, j + 1))
    ELSE IF s[j] = "[" THEN ArrayAt(s, SkipWs(s, j + 1))
    ELSE ParseFail

ParseValue(s, i) == ValueAt(s, SkipWs(s, i))

\* nothing but whitespace may follow the value
WholeText(s, r) ==
    IF r.ok /\ SkipWs(s, r.pos) > Len(s) THEN r ELSE ParseFail

\* json.loads(s): [ok |-> FALSE] stands for JSONDecodeError
Loads(s) == WholeText(s, ParseValue(s, 1))

-----------------------------------------------------------------------------
(* services/ai_service.py: process_deepseek_response.                      *)
(* A block of code answers [k, v, exc]: it returned v, it raised exc, or    *)
(* control fell through to the statement behind it.                        *)

Return(v) == [k |-> "return", v |-> v, exc |-> "none"]
Raise(exc) == [k |-> "raise", v |-> PyNone, exc |-> exc]
Fall == [k |-> "fall", v |-> PyNone, exc |-> "none"]

APOLOGY ==
    PyStr(<<"I apologize, but I couldn't generate a proper response. Can you send that message again?">>)
NOT_SURE == PyStr(<<"I'm not sure how to answer that.">>)

\* s.replace("**", "")
RECURSIVE RemovePairs(_)
RemovePairs(s) ==
    IF s = <<>> THEN <<>>
    ELSE IF StartsWith(s, <<"*", "*">>) THEN RemovePairs(SubSeq(s, 3, Len(s)))
    ELSE <<Head(s)>> \o RemovePairs(Tail(s))

\* s.split(sep)[0] and s.split(sep)[1], for an s that holds sep
SplitHead(s, sep) ==
    IF Contains(s, sep) THEN SubSeq(s, 1, Find(s, sep) - 1) ELSE s
SplitSecond(s, sep) ==
    SplitHead(SubSeq(s, Find(s, sep) + Len(sep), Len(s)), sep)

\* text.split(FENCE_JSON)[1].split(FENCE)[0].strip()
FenceContent(text) == Strip(SplitHead(SplitSecond(text, FENCE_JSON), <<FENCE>>))

\* answer_text.replace("*", "").strip()
Clean(s) == Strip(Remove(s, "*"))

\* "answer" in x: a key of a dict, an element of a list, a substring of a
\* str, a TypeError for None and for a number
AnswerIn(x) ==
    CASE x.t = "dict" -> DictHas(x, ANSWER)
      [] x.t = "list" -> \E i \in DOMAIN x.kv : x.kv[i].v = PyStr(ANSWER)
      [] x.t = "str" -> Contains(x.s, ANSWER)
      [] OTHER -> FALSE
AnswerInRaises(x) == x.t \in {"none", "num"}

\* the answer of a dict that has one, if it is a str:
\* if isinstance(answer_text, str): return answer_text.replace("*", "").strip()
StrAnswer(answer_text) ==
    IF IsStr(answer_text) THEN Return(PyStr(Clean(answer_text.s))) ELSE Fall

\* if "answer" in parsed: answer_text = parsed["answer"]; ...
ExtractAnswer(parsed) ==
    IF AnswerInRaises(parsed) THEN Raise("TypeError")
    ELSE IF ~AnswerIn(parsed) THEN Fall
    ELSE IF ~IsDict(parsed) THEN Raise("TypeError")
    ELSE StrAnswer(DictGet(parsed, ANSWER))

\* a block that returned, or else the statements behind it
OrElse(r, rest) == IF r.k = "fall" THEN rest ELSE r

\* try: ... except: pass
ExceptPass(r) == IF r.k = "raise" THEN Fall ELSE r

\* the answer of what json.loads made of a text
LoadedAnswer(parsed) ==
    IF parsed.ok THEN ExtractAnswer(parsed.v) ELSE Raise("JSONDecodeError")

\* the answer of the JSON object in the fenced block of text
FencedAnswer(text) == ExceptPass(LoadedAnswer(Loads(FenceContent(text))))

\* if isinstance(answer_content, str) and (fence)json in answer_content: ...
IfFenced(answer_content) ==
    IF IsStr(answer_content) /\ Contains(answer_content.s, FENCE_JSON)
    THEN FencedAnswer(answer_content.s)
    ELSE Fall

\* the answer of the JSON object the str answer_content is
InnerAnswer(answer_content) == LoadedAnswer(Loads(answer_content))

\* if isinstance(answer_content, str): answer_content = answer_content.replace("*", "")
\* return answer_content.strip()
ReturnStripped(answer_content) ==
    IF IsStr(answer_content) THEN Return(PyStr(Clean(answer_content.s)))
    ELSE Raise("AttributeError")

\* return str(d).replace("*", "").strip()
ReturnStr(d) == Return(PyStr(Clean(Str(d))))

\* lines 369-381: the str answer looks like a JSON object
IfLooksLikeObject(answer_content) ==
    IF /\ StartsWith(Strip(answer_content.s), <<"{">>)
       /\ EndsWith(Strip(answer_content.s), <<"}">>)
    THEN ExceptPass(InnerAnswer(answer_content.s))
    ELSE Fall

\* lines 387-392: the answer of a dict answer, with its pairs of asterisks removed
NestedAnswer(answer_text) ==
    IF IsStr(answer_text) THEN Return(PyStr(Strip(RemovePairs(answer_text.s)))) ELSE Fall

\* lines 367-392
DictAnswer(answer_content) ==
    IF IsStr(answer_content)
    THEN OrElse(IfLooksLikeObject(answer_content), Return(PyStr(Clean(answer_content.s))))
    ELSE IF IsDict(answer_content) /\ DictHas(answer_content, ANSWER)
    THEN NestedAnswer(DictGet(answer_content, ANSWER))
    ELSE Fall

\* lines 348-392
DictContent(answer_content) ==
    OrElse(IfFenced(answer_content), DictAnswer(answer_content))

\* the response is a dict (lines 346-396)
DictBranch(resp) ==
    OrElse(IF DictHas(resp, ANSWER) THEN DictContent(DictGet(resp, ANSWER)) ELSE Fall,
           ReturnStr(resp))

\* lines 412-419
SimpleContent(answer_content) ==
    IF ~Truthy(answer_content) THEN Return(APOLOGY)
    ELSE IF ~IsStr(answer_content) THEN Raise("AttributeError")
    ELSE IF Strip(answer_content.s) = <<>> THEN Return(APOLOGY)
    ELSE ReturnStripped(answer_content)

\* lines 410-419
SimpleParsed(response_dict) ==
    IF ~response_dict.ok THEN Raise("JSONDecodeError")
    ELSE IF AnswerInRaises(response_dict.v) THEN Raise("TypeError")
    ELSE IF ~AnswerIn(response_dict.v) THEN Fall
    ELSE IF ~IsDict(response_dict.v) THEN Raise("TypeError")
    ELSE SimpleContent(DictGet(response_dict.v, ANSWER))

\* lines 407-419: the response starts with {"answer": and ends with }
SimpleAnswer(resp) ==
    IF /\ StartsWith(Strip(resp.s), <<"{", Q, "answer", Q, ":">>)
       /\ EndsWith(Strip(resp.s), <<"}">>)
    THEN SimpleParsed(Loads(resp.s))
    ELSE Fall

\* lines 457-469: except: return the answer itself, asterisks removed
ExceptReturnStripped(r, answer_content) ==
    IF r.k = "raise" THEN ReturnStripped(answer_content) ELSE r

\* lines 454-483
ParsedAnswer(answer_content) ==
    IF IsStr(answer_content) /\ StartsWith(Strip(answer_content.s), <<"{">>)
    THEN ExceptReturnStripped(InnerAnswer(answer_content.s), answer_content)
    ELSE IF IsDict(answer_content) /\ AnswerIn(answer_content)
    THEN StrAnswer(DictGet(answer_content, ANSWER))
    ELSE ReturnStripped(answer_content)

\* lines 426-483
ParsedContent(answer_content) ==
    IF ~Truthy(answer_content) THEN Return(APOLOGY)
    ELSE IF IsStr(answer_content) /\ Strip(answer_content.s) = <<>> THEN Return(APOLOGY)
    ELSE OrElse(IfFenced(answer_content), ParsedAnswer(answer_content))

\* lines 425-487
Parsed(response_dict) ==
    IF AnswerInRaises(response_dict) THEN Raise("TypeError")
    ELSE IF ~AnswerIn(response_dict) THEN ReturnStr(response_dict)
    ELSE IF ~IsDict(response_dict) THEN Raise("TypeError")
    ELSE OrElse(ParsedContent(DictGet(response_dict, ANSWER)), ReturnStr(response_dict))

\* lines 422-487
ParsedResponse(response_dict) ==
    IF response_dict.ok THEN Parsed(response_dict.v) ELSE Raise("JSONDecodeError")

\* the response is a str that is not blank: the body of the inner try
StrBody(resp) == OrElse(SimpleAnswer(resp), ParsedResponse(Loads(resp.s)))

\* except json.JSONDecodeError: return response.strip().replace("*", "")
ExceptJSONDecodeError(r, resp) ==
    IF r.k = "raise" /\ r.exc = "JSONDecodeError"
    THEN Return(PyStr(Remove(Strip(resp.s), "*")))
    ELSE r

\* the response is a str (lines 399-492)
StrBranch(resp) ==
    IF Strip(resp.s) = <<>> THEN Return(APOLOGY)
    ELSE ExceptJSONDecodeError(StrBody(resp), resp)

\* the outer try without its except clause
ExceptNothing(r) == r

\* except Exception as e: print(...)
ExceptException(r) == IF r.k = "raise" THEN Fall ELSE r

\* the statements before the outer try (lines 294-342)
Shortcuts(resp) ==
    IF ~Truthy(resp) THEN Return(APOLOGY)
    ELSE IF resp = PyStr(Dumps(PyDict(<<Item(ANSWER, PyStr(<<>>))>>)))
            \/ resp = PyDict(<<Item(ANSWER, PyStr(<<>>))>>)
    THEN Return(APOLOGY)
    ELSE IF IsDict(resp) /\ Len(resp.kv) = 1 /\ DictHas(resp, ANSWER)
            /\ IsStr(DictGet(resp, ANSWER))
    THEN Return(PyStr(Clean(DictGet(resp, ANSWER).s)))
    ELSE IF IsStr(resp) /\ Contains(resp.s, FENCE_JSON)
    THEN FencedAnswer(resp.s)
    ELSE Fall

\* the outer try (lines 344-495)
Body(resp) ==
    ExceptException(IF IsDict(resp) THEN DictBranch(resp)
                    ELSE IF IsStr(resp) THEN StrBranch(resp)
                    ELSE Fall)

process_deepseek_response(resp) ==
    OrElse(Shortcuts(resp), OrElse(Body(resp), Return(NOT_SURE)))

-----------------------------------------------------------------------------
(* services/ai_service.py: query_deepseek and answer_hr_question.          *)

TECHNICAL == <<"I'm having technical difficulties right now: ">>
UNEXPECTED == <<"An unexpected error occurred: ">>

\* What the chat-completions API does with one request: the request fails,
\* the body is not what the code expects, it has no content, or it has the
\* content c.
ApiContents ==
    {<<" ">>, <<"x">>,
     Fenced(Dumps(PyDict(<<Item(ANSWER, PyStr(<<"x">>))>>))),
     Dumps(PyDict(<<Item(ANSWER, PyStr(Dumps(PyDict(<<Item(ANSWER, PyNum(5))>>))))>>))}
ApiOutcomes ==
    {[kind |-> k, content |-> <<>>] : k \in {"request_exception", "exception", "no_choices"}}
        \cup {[kind |-> "content", content |-> c] : c \in ApiContents}

\* json.dumps({"answer": text})
AnswerJson(text) == Dumps(PyDict(<<Item(ANSWER, PyStr(text))>>))

query_deepseek(prompt, api) ==
    CASE api.kind = "request_exception" -> AnswerJson(TECHNICAL)
      [] api.kind = "exception" -> AnswerJson(UNEXPECTED)
      [] api.kind = "no_choices" -> AnswerJson(APOLOGY.s)
      [] OTHER ->
            IF Strip(api.content) = <<>> THEN AnswerJson(APOLOGY.s)
            ELSE IF ~(StartsWith(Strip(api.content), <<"{">>)
                        /\ EndsWith(Strip(api.content), <<"}">>))
            THEN AnswerJson(api.content)
            ELSE api.content

answer_hr_question(question, hr, store, api) ==
    LET relevant_text == retrieve_relevant_text(hr, store).value
    IN  query_deepseek([question |-> question, relevant_text |-> relevant_text], api)

-----------------------------------------------------------------------------
(* services/ai_service.py: the Telegram and WhatsApp handlers.             *)

APOLOGY_HELP ==
    PyStr(<<"I apologize, but I couldn't generate a proper response. How else can I help you?">>)

\* re.sub(r"(fence)(?:json|python|)\n", "", text)
RECURSIVE RemoveFenceLines(_)
RemoveFenceLines(s) ==
    IF s = <<>> THEN <<>>
    ELSE IF StartsWith(s, <<FENCE, "json", "\n">>) \/ StartsWith(s, <<FENCE, "python", "\n">>)
    THEN RemoveFenceLines(SubSeq(s, 4, Len(s)))
    ELSE IF StartsWith(s, <<FENCE, "\n">>)
    THEN RemoveFenceLines(SubSeq(s, 3, Len(s)))
    ELSE <<Head(s)>> \o RemoveFenceLines(Tail(s))

\* the clean-up of code blocks both handlers make
RemoveCodeBlocks(text) ==
    IF Contains(text, <<FENCE>>) THEN Remove(RemoveFenceLines(text), FENCE) ELSE text

\* the answer of the JSON object a text is, whatever its type, else the text
Unwrapped(text, json_response) ==
    IF /\ json_response.ok
       /\ ~AnswerInRaises(json_response.v)
       /\ AnswerIn(json_response.v)
       /\ IsDict(json_response.v)
    THEN DictGet(json_response.v, ANSWER)
    ELSE PyStr(text)

\* the clean-up of JSON formatting both handlers make
UnwrapJson(text) ==
    IF StartsWith(Strip(text), <<"{">>) /\ EndsWith(Strip(text), <<"}">>)
    THEN Unwrapped(text, Loads(text))
    ELSE PyStr(text)

\* the calls a handler makes for one message, in order
CallAnswer(question, result) ==
    [call |-> "answer_hr_question", arg |-> PyStr(question), value |-> PyStr(result),
     raised |-> FALSE, to |-> ""]
CallProcess(result, processed) ==
    [call |-> "process_deepseek_response", arg |-> result, value |-> processed.v,
     raised |-> processed.k = "raise", to |-> ""]
CallSend(to, text) ==
    [call |-> "send", arg |-> text, value |-> PyNone, raised |-> FALSE, to |-> to]

\* what answer_hr_question(question) can return
Answers(question, hr) ==
    {answer_hr_question(question, hr, store, api) :
        store \in StoreAnswers(hr), api \in ApiOutcomes}

\* lines 515-519 and 588-592: the question is answered, with this result,
\* and the result processed
AnswerEvents(question, result) ==
    LET processed == process_deepseek_response(PyStr(result))
    IN  <<CallAnswer(question, result), CallProcess(PyStr(result), processed)>>

Chats == {"c1"}
PostOutcomes == {"ok", "failed", "raise"}
TelegramUpdates ==
    [message : {TRUE}, chat_id : Chats, text : {<<>>, <<" ">>, <<"q", " ">>}]
        \cup [message : {FALSE}, chat_id : Chats, text : {<<>>}]

\* lines 541-555: the final check, and the reply is posted
TelegramSend(chat_id, calls, response_text) ==
    [post \in PostOutcomes |->
        IF Truthy(response_text) /\ ~IsStr(response_text)
        THEN [status |-> "Error but acknowledged", accepted |-> TRUE, calls |-> calls]
        ELSE [status |-> CASE post = "ok" -> "Message processed"
                           [] post = "failed" -> "Message processed but sending failed"
                           [] OTHER -> "Error but acknowledged",
              accepted |-> TRUE,
              calls |-> Append(calls, CallSend(chat_id,
                            IF ~Truthy(response_text) \/ Strip(response_text.s) = <<>>
                            THEN APOLOGY_HELP
                            ELSE response_text))]]

\* lines 522-555: the processed answer is cleaned and sent
TelegramReply(chat_id, calls) ==
    IF calls[2].raised
    THEN [post \in PostOutcomes |->
            [status |-> "Error but acknowledged", accepted |-> TRUE, calls |-> calls]]
    ELSE TelegramSend(chat_id, calls, UnwrapJson(RemoveCodeBlocks(calls[2].value.s)))

\* handle_telegram_request(data): what it returns and the calls it made,
\* when answer_hr_question returns result, for all that requests.post can do
handle_telegram_request(data, result) ==
    IF ~data.message
    THEN [post \in PostOutcomes |-> [status |-> "KeyError", accepted |-> FALSE, calls |-> <<>>]]
    ELSE IF Strip(data.text) = <<>>
    THEN [post \in PostOutcomes |->
            [status |-> "No question provided", accepted |-> FALSE, calls |-> <<>>]]
    ELSE TelegramReply(data.chat_id, AnswerEvents(Strip(data.text), result))

PhoneNumbers == <<"p1", "p2", "p3">>
Phones == {PhoneNumbers[i] : i \in 1..MaxPhones}
Threads == 1..MaxThreads
SESSION_HOURS == 24
ClockReadings == {0} \cup (SESSION_HOURS..MaxClock)

\* ai_service.whatsapp_sessions is a dict: its items in insertion order, each
\* a phone number k and a session v
NoSessions == <<>>
Numbers(sessions) == {sessions[i].k : i \in DOMAIN sessions}
SessionOf(sessions, number) ==
    sessions[CHOOSE i \in DOMAIN sessions : sessions[i].k = number].v
\* del sessions[number]
DictDel(sessions, number) == SelectSeq(sessions, LAMBDA item : item.k # number)

ExpiredAtTheBoundary(session, tnow) ==
    tnow - session.last_message_time >= SESSION_HOURS

\* line 659: (now - session["last_message_time"]) > timedelta(hours=24)
SessionExpired(session, tnow) ==
    tnow - session.last_message_time > SESSION_HOURS

\* the message a handler has finished with: what it was, whether the handler
\* accepted it, what the handler returned, and the calls it made, in order
Handled(platform, sender, text, accepted, status, calls) ==
    [platform |-> platform, sender |-> sender, text |-> text,
     accepted |-> accepted, status |-> status, calls |-> calls]
NothingHandled == Handled("none", "", <<>>, FALSE, "", <<>>)

\* A request thread inside handle_whatsapp_request: where it is (pc), the
\* sender and the text of its message, and the locals of
\* get_or_create_whatsapp_session: now, and the items the loop has yet to visit.
Thread(pc, sender, text, tnow, items) ==
    [pc |-> pc, sender |-> sender, text |-> text, now |-> tnow, items |-> items]
IdleThread == Thread("idle", "", <<>>, 0, <<>>)
InSessionCall(t) == threads[t].pc \in {"cleanup", "create", "update", "return"}

\* the Telegram handler has finished with a message
TelegramHandled(data, r) ==
    events' = Handled("telegram", data.chat_id, Strip(data.text), r.accepted, r.status, r.calls)

\* a Telegram update arrives and a free thread handles it
HandleTelegramRequest ==
    /\ \E t \in Threads : threads[t].pc = "idle"
    /\ \E data \in TelegramUpdates :
        \E result \in Answers(Strip(data.text), hr_collection) :
            \E r \in {handle_telegram_request(data, result)} :
                \E post \in PostOutcomes : TelegramHandled(data, r[post])
    /\ UNCHANGED <<storeVars, rr, rt, pdr, whatsapp_sessions, now, threads, limiter>>

WhatsappPayloads ==
    [entry : {TRUE}, changes : {TRUE}, messages : {TRUE},
     from : Phones \cup {""}, body : {<<>>, <<"q">>}]
        \cup [entry : BOOLEAN, changes : BOOLEAN, messages : {FALSE}, from : {""}, body : {<<>>}]

\* lines 567-581 of handle_whatsapp_request: "" when the message is accepted
WhatsappRejection(data) ==
    CASE ~data.entry -> "Failed to process message"
      [] ~data.changes -> "no_changes"
      [] ~data.messages -> "no_messages"
      [] data.from = "" \/ data.body = <<>> -> "invalid_message"
      [] OTHER -> ""

\* A WhatsApp notification arrives; handle_whatsapp_request rejects it, or
\* accepts it and get_or_create_whatsapp_session reads the clock and lists
\* the sessions (lines 655 and 658).
HandleWhatsappRequest(t) ==
    /\ threads[t].pc = "idle"
    /\ \E data \in WhatsappPayloads :
        LET status == WhatsappRejection(data)
        IN  IF status # ""
            THEN /\ events' = Handled("whatsapp", data.from, data.body, FALSE, status, <<>>)
                 /\ UNCHANGED threads
            ELSE /\ threads' = [threads EXCEPT ![t] =
                        Thread("cleanup", data.from, data.body, now, whatsapp_sessions)]
                 /\ UNCHANGED events
    /\ UNCHANGED <<storeVars, rr, rt, pdr, whatsapp_sessions, now, limiter>>

\* the handler's except clause: the message is not answered
FailWhatsapp(t) ==
    /\ threads' = [threads EXCEPT ![t] = IdleThread]
    /\ events' = Handled("whatsapp", threads[t].sender, threads[t].text, TRUE,
                         "Failed to process message", <<>>)

\* the session object an item of the list refers to: the stored one while
\* it is still the stored one, else as it was when it left the dict
SessionObject(sessions, item) ==
    IF /\ item.k \in Numbers(sessions)
       /\ SessionOf(sessions, item.k).created_at = item.v.created_at
    THEN SessionOf(sessions, item.k)
    ELSE item.v

\* one turn of the clean-up loop (lines 658-660): a session whose last
\* message is more than 24 hours old is deleted; del raises KeyError when
\* another thread has deleted the entry
CleanupExpired(t) ==
    /\ threads[t].pc = "cleanup"
    /\ threads[t].items # <<>>
    /\ LET item == Head(threads[t].items)
           session == SessionObject(whatsapp_sessions, item)
           expired == SessionExpired(session, threads[t].now)
       IN  IF expired /\ item.k \notin Numbers(whatsapp_sessions)
           THEN /\ FailWhatsapp(t)
                /\ UNCHANGED whatsapp_sessions
           ELSE /\ threads' = [threads EXCEPT ![t].items = Tail(@)]
                /\ whatsapp_sessions' =
                        IF expired THEN DictDel(whatsapp_sessions, item.k)
                        ELSE whatsapp_sessions
                /\ UNCHANGED events
    /\ UNCHANGED <<storeVars, rr, rt, pdr, now, limiter>>

\* line 662: is there a session for the sender?
CheckSession(t) ==
    /\ threads[t].pc = "cleanup"
    /\ threads[t].items = <<>>
    /\ threads' = [threads EXCEPT ![t].pc =
            IF threads[t].sender \notin Numbers(whatsapp_sessions) THEN "create" ELSE "update"]
    /\ UNCHANGED <<storeVars, rr, rt, pdr, whatsapp_sessions, now, events, limiter>>

\* lines 663-667
CreateSession(t) ==
    /\ threads[t].pc = "create"
    /\ whatsapp_sessions' = DictSet(whatsapp_sessions, threads[t].sender,
            [created_at |-> threads[t].now, last_message_time |-> threads[t].now,
             user_type |-> "new"])
    /\ threads' = [threads EXCEPT ![t].pc = "return"]
    /\ UNCHANGED <<storeVars, rr, rt, pdr, now, events, limiter>>

\* lines 670-671: the lookup raises KeyError when the entry is gone
UpdateSession(t) ==
    /\ threads[t].pc = "update"
    /\ IF threads[t].sender \notin Numbers(whatsapp_sessions)
       THEN /\ FailWhatsapp(t)
            /\ UNCHANGED whatsapp_sessions
       ELSE /\ whatsapp_sessions' = DictSet(whatsapp_sessions, threads[t].sender,
                    [SessionOf(whatsapp_sessions, threads[t].sender) EXCEPT
                        !.last_message_time = threads[t].now,
                        !.user_type = "returning"])
            /\ threads' = [threads EXCEPT ![t].pc = "return"]
            /\ UNCHANGED events
    /\ UNCHANGED <<storeVars, rr, rt, pdr, now, limiter>>

\* line 673: the lookup raises KeyError when the entry is gone
ReturnSession(t) ==
    /\ threads[t].pc = "return"
    /\ IF threads[t].sender \notin Numbers(whatsapp_sessions)
       THEN FailWhatsapp(t)
       ELSE /\ threads' = [threads EXCEPT ![t].pc = "answer"]
            /\ UNCHANGED events
    /\ UNCHANGED <<storeVars, rr, rt, pdr, whatsapp_sessions, now, limiter>>

\* lines 611-617: the final check, and the reply is sent
WhatsappSend(sender, calls, processed_answer) ==
    [post \in PostOutcomes |->
        IF ~IsStr(processed_answer)
        THEN [status |-> "Failed to process message", calls |-> calls]
        ELSE [status |-> IF post = "raise" THEN "Failed to process message"
                         ELSE "message_processed",
              calls |-> Append(calls, CallSend(sender,
                            IF Strip(processed_answer.s) = <<>> THEN APOLOGY
                            ELSE processed_answer))]]

\* lines 595-617: the processed answer is cleaned and sent
WhatsappReply(sender, calls) ==
    IF calls[2].raised
    THEN [post \in PostOutcomes |-> [status |-> "Failed to process message", calls |-> calls]]
    ELSE WhatsappSend(sender, calls, UnwrapJson(RemoveCodeBlocks(calls[2].value.s)))

\* lines 588-617 of handle_whatsapp_request: the status and the calls made,
\* when answer_hr_question returns result, for all that requests.post can do
whatsapp_reply(sender, message_text, result) ==
    WhatsappReply(sender, AnswerEvents(message_text, result))

\* the WhatsApp handler has finished with the message of thread t
WhatsappHandled(t, r) ==
    events' = Handled("whatsapp", threads[t].sender, threads[t].text, TRUE, r.status, r.calls)

\* the session is there: the question is answered and the reply sent
AnswerWhatsapp(t) ==
    /\ threads[t].pc = "answer"
    /\ \E result \in Answers(threads[t].text, hr_collection) :
        \E r \in {whatsapp_reply(threads[t].sender, threads[t].text, result)} :
            \E post \in PostOutcomes : WhatsappHandled(t, r[post])
    /\ threads' = [threads EXCEPT ![t] = IdleThread]
    /\ UNCHANGED <<storeVars, rr, rt, pdr, whatsapp_sessions, now, limiter>>

\* Time passes.  A call of get_or_create_whatsapp_session reads the clock
\* once and is over before the clock shows the next hour.
Tick ==
    /\ \A t \in Threads : ~InSessionCall(t)
    /\ \E later \in ClockReadings : later > now /\ now' = later
    /\ UNCHANGED <<storeVars, rr, rt, pdr, whatsapp_sessions, threads, events, limiter>>

\* get_or_create_whatsapp_session run by one thread from its first line to
\* its return, no other thread in between.

\* lines 663-667
NewSession(tnow) ==
    [created_at |-> tnow, last_message_time |-> tnow, user_type |-> "new"]

\* lines 670-671
ReturningSession(session, tnow) ==
    [session EXCEPT !.last_message_time = tnow, !.user_type = "returning"]

\* lines 658-660: the loop over list(whatsapp_sessions.items())
RECURSIVE CleanupLoop(_, _, _)
CleanupLoop(sessions, items, tnow) ==
    IF items = <<>> THEN sessions
    ELSE CleanupLoop(IF SessionExpired(Head(items).v, tnow)
                     THEN DictDel(sessions, Head(items).k)
                     ELSE sessions,
                     Tail(items), tnow)

\* lines 662-671 on the sessions the loop left
CreateOrUpdate(sessions, phone_number, tnow) ==
    IF phone_number \notin Numbers(sessions)
    THEN DictSet(sessions, phone_number, NewSession(tnow))
    ELSE DictSet(sessions, phone_number,
                 ReturningSession(SessionOf(sessions, phone_number), tnow))

\* the dict after the call, and the session the call returns (line 673)
SessionResult(sessions, phone_number) ==
    [sessions |-> sessions, session |-> SessionOf(sessions, phone_number)]

get_or_create_whatsapp_session(sessions, phone_number, tnow) ==
    SessionResult(CreateOrUpdate(CleanupLoop(sessions, sessions, tnow), phone_number, tnow),
                  phone_number)

Callers == {PhoneNumbers[i] : i \in 1..MaxCallers}

\* one call, with the dict as the call found it
GetOrCreateWhatsappSession ==
    /\ \E phone_number \in Callers :
        \E r \in {get_or_create_whatsapp_session(whatsapp_sessions, phone_number, now)} :
            /\ whatsapp_sessions' = r.sessions
            /\ response' = [op |-> "get_or_create_whatsapp_session", status |-> 200,
                            phone_number |-> phone_number, now |-> now,
                            before |-> whatsapp_sessions, session |-> r.session]
    /\ UNCHANGED <<resume_collection, hr_collection, hr_insights_collection,
                   rr, rt, pdr, now, threads, events, limiter>>

-----------------------------------------------------------------------------
(* main.py and services/ai_service.py: the analysis routes.                *)

NO_FEEDBACK ==
    PyDict(<<Item(<<"error">>, PyStr(<<"No feedback data provided.">>))>>)

\* predict_retention_risk(employee_data)
predict_retention_risk(employee_data, api) ==
    PyStr(query_deepseek([employee_data |-> employee_data], api))

\* analyze_feedback(feedback_text)
analyze_feedback(feedback_text, api) ==
    PyStr(query_deepseek([feedback_text |-> feedback_text], api))

\* analyze_engagement(feedback_list): the joined feedback; a dict, not a
\* str, when it is empty
analyze_engagement(feedback_list, api) ==
    IF feedback_list = <<>> THEN NO_FEEDBACK
    ELSE PyStr(query_deepseek([feedback_list |-> feedback_list], api))

\* The JSON body of a request: the key is there or not, with its value.
TextBodies == [has : BOOLEAN, value : {<<>>, <<"a">>}]
ListBodies ==
    [has : BOOLEAN, value : {<<>>, << <<>> >>, << <<"a">> >>, << <<"a">>, <<"b">> >>}]

\* the end shared by the three routes: store_insight(type, result), then
\* the answer with the result
StoreAnalysis(op, insight_type, done, result, add) ==
    /\ hr_insights_collection' =
            store_insight(hr_insights_collection, insight_type, IsStr(result), add)
    /\ response' = [op |-> op, status |-> 200, type |-> insight_type,
                    body |-> [message |-> done, result |-> result]]

MissingField(op, error) ==
    /\ response' = [op |-> op, status |-> 400, body |-> [error |-> error]]
    /\ UNCHANGED hr_insights_collection

\* POST /predict-retention
retention_prediction(data, api, add) ==
    IF ~data.has \/ data.value = <<>>
    THEN MissingField("retention_prediction", "Missing employee_data")
    ELSE StoreAnalysis("retention_prediction", "retention",
                       "Retention analysis stored successfully.",
                       predict_retention_risk(data.value, api), add)

\* POST /analyze-feedback
analyze_feedback_api(data, api, add) ==
    IF ~data.has
    THEN MissingField("analyze_feedback_api", "Missing feedback_text")
    ELSE StoreAnalysis("analyze_feedback_api", "sentiment",
                       "Sentiment analysis stored successfully.",
                       analyze_feedback(data.value, api), add)

\* POST /analyze-engagement
analyze_engagement_api(data, api, add) ==
    IF ~data.has
    THEN MissingField("analyze_engagement_api", "Missing feedback_list")
    ELSE StoreAnalysis("analyze_engagement_api", "engagement",
                       "Engagement analysis stored successfully.",
                       analyze_engagement(Join(data.value, <<"\n", "\n">>), api), add)

RetentionPrediction ==
    /\ InsightCount(hr_insights_collection) < MaxAnalyses
    /\ \E data \in TextBodies, api \in ApiOutcomes, add \in Outcomes :
            retention_prediction(data, api, add)
    /\ UNCHANGED <<resume_collection, hr_collection, rr, rt, pdr, chatVars, limiter>>

AnalyzeFeedback ==
    /\ InsightCount(hr_insights_collection) < MaxAnalyses
    /\ \E data \in TextBodies, api \in ApiOutcomes, add \in Outcomes :
            analyze_feedback_api(data, api, add)
    /\ UNCHANGED <<resume_collection, hr_collection, rr, rt, pdr, chatVars, limiter>>

AnalyzeEngagement ==
    /\ InsightCount(hr_insights_collection) < MaxAnalyses
    /\ \E data \in ListBodies, api \in ApiOutcomes, add \in Outcomes :
            analyze_engagement_api(data, api, add)
    /\ UNCHANGED <<resume_collection, hr_collection, rr, rt, pdr, chatVars, limiter>>

\* POST /analyze-resume.  The route answers [status, body, calls]: calls
\* lists, in order, the service calls it made.

\* the f-string of lines 72-77: one entry for each resume, in list order
FormattedResumes(relevant_resumes) ==
    [i \in DOMAIN relevant_resumes |->
        [rank |-> i, score |-> relevant_resumes[i].score,
         text |-> relevant_resumes[i].text]]

\* lines 80-84
ResumePrompt(query, relevant_resumes) ==
    [query |-> query, formatted_resumes |-> FormattedResumes(relevant_resumes)]

CallRetrieve(query, relevant_resumes) ==
    [call |-> "retrieve_relevant_resumes", arg |-> query, value |-> relevant_resumes]

CallQuery(prompt, ai_response) ==
    [call |-> "query_deepseek", arg |-> prompt, value |-> ai_response]

\* lines 87-91
AnalyzeWithLlm(query, relevant_resumes, prompt, api) ==
    [status |-> 200,
     body |-> [query |-> query, analysis |-> query_deepseek(prompt, api),
               resumes |-> relevant_resumes],
     calls |-> <<CallRetrieve(query, relevant_resumes),
                 CallQuery(prompt, query_deepseek(prompt, api))>>]

AnalyzeAlways(query, relevant_resumes, api) ==
    AnalyzeWithLlm(query, relevant_resumes, ResumePrompt(query, relevant_resumes), api)

\* lines 69-91: no LLM call when retrieval returned nothing
AnalyzeRelevant(query, relevant_resumes, api) ==
    IF relevant_resumes = <<>>
    THEN [status |-> 200, body |-> [error |-> "No matching resumes found"],
          calls |-> <<CallRetrieve(query, relevant_resumes)>>]
    ELSE AnalyzeWithLlm(query, relevant_resumes,
                        ResumePrompt(query, relevant_resumes), api)

\* lines 62-91, for the query data.get("query", "") found
AnalyzeQuery(query, hits, api) ==
    IF query = <<>>
    THEN [status |-> 400, body |-> [error |-> "Query is required"], calls |-> <<>>]
    ELSE AnalyzeRelevant(query, retrieve_relevant_resumes(query, hits), api)

analyze_resume_api(data, hits, api) ==
    AnalyzeQuery(IF data.has THEN data.value ELSE <<>>, hits, api)

\* the JSON body: the key "query" is there with its value, or not
ResumeRequests ==
    {[has |-> FALSE, value |-> <<>>]} \cup [has : {TRUE}, value : Queries]

\* the route handles the request under study
AnalyzeResume ==
    /\ rr.op = "request"
    /\ \E api \in ApiOutcomes :
        \E hits \in QueryResumes(resume_collection) :
            \E r \in {analyze_resume_api(rr.data, hits, api)} :
                rr' = [op |-> "analyze_resume_api", data |-> rr.data, hits |-> hits,
                       status |-> r.status, body |-> r.body, calls |-> r.calls]
    /\ UNCHANGED <<storeVars, rt, pdr, chatVars, limiter>>

-----------------------------------------------------------------------------
(* main.py: the rate limiter and the route it guards first.                *)

\* default_limits=["20 per minute"], keyed by get_remote_address
RATE_LIMIT == 20
\* the limit the comment above the limiter announces
DOCUMENTED_LIMIT == 200

ClientAddresses == <<"ip1", "ip2", "ip3">>
Clients == {ClientAddresses[i] : i \in 1..MaxClients}

NoHits == [ip \in Clients |-> 0]

\* The limiter's test on one request of the key ip: the hit is counted, and
\* the request passes while the count is within the limit.
LimiterHit(hits, ip) == [hits EXCEPT ![ip] = @ + 1]
WithinLimit(hits, ip) == hits[ip] <= RATE_LIMIT

\* GET /
home == [message |-> "HR Assistant API is running"]

\* One request of a client to a route under the default limit: the nth of
\* its window; it is served, or rejected with 429 Too Many Requests.
LimitedRequest(ip) ==
    /\ limiter[ip] < MaxHits
    /\ limiter' = LimiterHit(limiter, ip)
    /\ response' =
            IF WithinLimit(limiter', ip)
            THEN [op |-> "home", status |-> 200, ip |-> ip, nth |-> limiter'[ip],
                  body |-> home]
            ELSE [op |-> "home", status |-> 429, ip |-> ip, nth |-> limiter'[ip],
                  body |-> [error |-> "Too Many Requests"]]
    /\ UNCHANGED <<resume_collection, hr_collection, hr_insights_collection,
                   rr, rt, pdr, chatVars>>

\* The one-minute window of a client's counter is over: the counter expires.
WindowExpires(ip) ==
    /\ limiter[ip] > 0
    /\ limiter' = [limiter EXCEPT ![ip] = 0]
    /\ UNCHANGED <<storeVars, rr, rt, pdr, chatVars>>

-----------------------------------------------------------------------------
(* Specifications.                                                         *)

NoResponse == [op |-> "none", status |-> 0, body |-> [message |-> ""]]

StoreIdle ==
    /\ resume_collection = EmptyCollection
    /\ hr_collection = EmptyCollection
    /\ hr_insights_collection = NoInsights
    /\ response = NoResponse

RetrievalIdle ==
    /\ rr = [op |-> "none"]
    /\ rt = [op |-> "none"]
    /\ pdr = [op |-> "none"]

ChatIdle ==
    /\ whatsapp_sessions = <<>>
    /\ now = 0
    /\ threads = <<>>
    /\ events = <<>>

LimiterIdle == limiter = NoHits

\* What a data directory can hold when the process starts (PersistentClient
\* keeps the collections across runs): records as store_text_in_chromadb,
\* save_hr_document and store_insight write them.
StoredTexts == {parse_resume(pdf) : pdf \in StorePdfs} \ {<<>>}

ResumeRecords(f) ==
    {[document |-> t, metadata |-> [filename |-> f, type |-> ty, timestamp |-> ts]] :
        t \in StoredTexts, ty \in {"resume", "hr_document"}, ts \in Times}

HrRecords(f) ==
    {[document |-> t, metadata |-> [filename |-> f]] : t \in StoredTexts}

\* the collections made of these records, each under its filename
Collections(records) ==
    UNION {{c \in [S -> records] : \A f \in S : c[f].metadata.filename = f} :
            S \in SUBSET Filenames}

InsightBags(limit) ==
    {b \in [InsightTypes -> 0..limit] : InsightCount(b) <= limit}

\* Uploads into a fresh data directory.
InitUpload ==
    /\ StoreIdle
    /\ RetrievalIdle
    /\ ChatIdle
    /\ LimiterIdle

NextUpload ==
    \/ UploadResume
    \/ UploadResumes
    \/ UploadHrDocuments
    \/ ListResumes
    \/ ListHrDocuments

SpecUpload == InitUpload /\ [][NextUpload]_vars

\* Deleting and clearing what a data directory holds.
InitDelete ==
    /\ resume_collection \in Collections(UNION {ResumeRecords(f) : f \in Filenames})
    /\ hr_collection \in Collections(UNION {HrRecords(f) : f \in Filenames})
    /\ hr_insights_collection \in InsightBags(MaxStoreInsights)
    /\ response = NoResponse
    /\ RetrievalIdle
    /\ ChatIdle
    /\ LimiterIdle

NextDelete ==
    \/ DeleteResume
    \/ DeleteHrDocument
    \/ ClearResumes
    \/ ClearHrDocuments
    \/ ClearInsights
    \/ ListResumes
    \/ ListHrDocuments
    \/ GetInsights

SpecDelete == InitDelete /\ [][NextDelete]_vars

\* Storing and reading HR insights.
InitInsights ==
    /\ StoreIdle
    /\ RetrievalIdle
    /\ ChatIdle
    /\ LimiterIdle

NextInsights ==
    \/ StoreInsight(MaxInsights)
    \/ GetInsights
    \/ ClearInsights

SpecInsights == InitInsights /\ [][NextInsights]_vars

\* Resume retrieval over what a data directory holds.
FullResumeRecords(f) ==
    {[document |-> t, metadata |-> [filename |-> f, type |-> "resume", timestamp |-> ts]] :
        t \in {parse_resume(pdf) : pdf \in Pdfs} \ {<<>>}, ts \in Times}

InitResumes ==
    /\ resume_collection \in Collections(UNION {FullResumeRecords(f) : f \in Filenames})
    /\ hr_collection = EmptyCollection
    /\ hr_insights_collection = NoInsights
    /\ response = NoResponse
    /\ \E query \in Queries : rr = [op |-> "request", query |-> query]
    /\ rt = [op |-> "none"]
    /\ pdr = [op |-> "none"]
    /\ ChatIdle
    /\ LimiterIdle

NextResumes ==
    \/ RetrieveRelevantResumes

SpecResumes == InitResumes /\ [][NextResumes]_vars

\* HR-text retrieval over what a data directory holds.
HrFilenames == Filenames \cup {"f3", "f4"}
LongText == [i \in 1..(2 * MaxDocLen) |-> "x"]
HrTexts == SeqsUpTo({"x", " "}, MaxDocLen) \cup {NA, NANA, LongText}

InitText ==
    /\ resume_collection = EmptyCollection
    /\ hr_collection \in
            UNION {[S -> {[document |-> t, metadata |-> [filename |-> "f"]] : t \in HrTexts}] :
                    S \in SUBSET HrFilenames}
    /\ hr_insights_collection = NoInsights
    /\ response = NoResponse
    /\ RetrievalIdle
    /\ ChatIdle
    /\ LimiterIdle

NextText ==
    \/ RetrieveRelevantText

SpecText == InitText /\ [][NextText]_vars

\* process_deepseek_response over the replies an LLM can give: plain text,
\* JSON values, objects with and without an answer, nested objects, their
\* JSON text bare, padded and in a fenced block, the same wrapped once more
\* as query_deepseek wraps a reply, and short strings of JSON punctuation.
AnswerTexts ==
    {<<>>, <<" ">>, <<"x">>, <<"*", "x", "*", " ">>, <<"*", "*", "x", "*">>, ANSWER}
Leaves ==
    {PyNone, PyNum(0), PyNum(5), PyList(<<>>), PyList(<<PyStr(ANSWER)>>), PyList(<<PyNum(5)>>)}
        \cup {PyStr(a) : a \in AnswerTexts}
FlatDicts ==
    {PyDict(<<>>)}
        \cup {PyDict(<<Item(key, v)>>) : key \in {ANSWER, <<"other">>}, v \in Leaves}
        \cup {PyDict(<<Item(ANSWER, v), Item(<<"other">>, PyNum(5))>>) : v \in Leaves}
NestedDicts == {PyDict(<<Item(ANSWER, d)>>) : d \in FlatDicts}
Objects == Leaves \cup FlatDicts \cup NestedDicts

JsonTexts ==
    UNION {{Dumps(o), <<" ">> \o Dumps(o) \o <<"\n">>, Fenced(Dumps(o)),
            <<"x", " ">> \o Fenced(Dumps(o)) \o <<" ", "x">>} : o \in Objects}
Wrapped == {PyDict(<<Item(ANSWER, PyStr(s))>>) : s \in JsonTexts}

RawChars == {"{", "}", "[", "]", Q, ":", ",", "answer", "5", "null", " ", "*", FENCE, "json", BS, "x"}
RawTexts == SeqsUpTo(RawChars, MaxRawLen)

Responses ==
    Objects \cup Wrapped
        \cup {PyStr(s) : s \in JsonTexts \cup RawTexts}
        \cup {PyStr(Dumps(w)) : w \in Wrapped}

InitResponse ==
    /\ StoreIdle
    /\ rr = [op |-> "none"]
    /\ rt = [op |-> "none"]
    /\ \E r \in Responses : pdr = [op |-> "request", response |-> r]
    /\ ChatIdle
    /\ LimiterIdle

ProcessDeepseekResponse ==
    /\ pdr.op = "request"
    /\ pdr' = [op |-> "process_deepseek_response",
               response |-> pdr.response,
               result |-> process_deepseek_response(pdr.response)]
    /\ UNCHANGED <<storeVars, rr, rt, chatVars, limiter>>

NextResponse ==
    \/ ProcessDeepseekResponse

SpecResponse == InitResponse /\ [][NextResponse]_vars

\* The chat handlers, on request threads that share whatsapp_sessions.
InitChat ==
    /\ StoreIdle
    /\ RetrievalIdle
    /\ whatsapp_sessions = NoSessions
    /\ now = 0
    /\ threads = [t \in Threads |-> IdleThread]
    /\ events = NothingHandled
    /\ LimiterIdle

NextChat ==
    \/ HandleTelegramRequest
    \/ \E t \in Threads : HandleWhatsappRequest(t)
    \/ \E t \in Threads : CleanupExpired(t)
    \/ \E t \in Threads : CheckSession(t)
    \/ \E t \in Threads : CreateSession(t)
    \/ \E t \in Threads : UpdateSession(t)
    \/ \E t \in Threads : ReturnSession(t)
    \/ \E t \in Threads : AnswerWhatsapp(t)
    \/ Tick

SpecChat == InitChat /\ [][NextChat]_vars

\* The analysis routes on a fresh data directory.
InitAnalysis ==
    /\ StoreIdle
    /\ RetrievalIdle
    /\ ChatIdle
    /\ LimiterIdle

NextAnalysis ==
    \/ RetentionPrediction
    \/ AnalyzeFeedback
    \/ AnalyzeEngagement
    \/ GetInsights

SpecAnalysis == InitAnalysis /\ [][NextAnalysis]_vars

\* Requests of several clients against the rate limiter.
InitLimiter ==
    /\ StoreIdle
    /\ RetrievalIdle
    /\ ChatIdle
    /\ LimiterIdle

NextLimiter ==
    \/ \E ip \in Clients : LimitedRequest(ip)
    \/ \E ip \in Clients : WindowExpires(ip)

SpecLimiter == InitLimiter /\ [][NextLimiter]_vars

\* WhatsApp sessions when the calls run one after the other.
InitSession ==
    /\ StoreIdle
    /\ RetrievalIdle
    /\ whatsapp_sessions = NoSessions
    /\ now = 0
    /\ threads = [t \in Threads |-> IdleThread]
    /\ events = NothingHandled
    /\ LimiterIdle

NextSession ==
    \/ GetOrCreateWhatsappSession
    \/ Tick

SpecSession == InitSession /\ [][NextSession]_vars

\* POST /analyze-resume over what a data directory holds.
InitAnalyzeResume ==
    /\ resume_collection \in Collections(UNION {ResumeRecords(f) : f \in Filenames})
    /\ hr_collection = EmptyCollection
    /\ hr_insights_collection = NoInsights
    /\ response = NoResponse
    /\ \E data \in ResumeRequests : rr = [op |-> "request", data |-> data]
    /\ rt = [op |-> "none"]
    /\ pdr = [op |-> "none"]
    /\ ChatIdle
    /\ LimiterIdle

NextAnalyzeResume ==
    \/ AnalyzeResume

SpecAnalyzeResume == InitAnalyzeResume /\ [][NextAnalyzeResume]_vars

-----------------------------------------------------------------------------
(* The document store's claims.                                            *)

UploadedHrFiles ==
    IF /\ response.op = "upload_hr_documents"
       /\ response.status = 200
       /\ "uploaded_files" \in DOMAIN response.body
    THEN {response.body.uploaded_files[i] : i \in DOMAIN response.body.uploaded_files}
    ELSE {}

\* C1: once POST /documents/upload-hr-documents has answered with its success
\* message, every filename of uploaded_files is the id of a record of the
\* hr_documents collection, and list_hr_documents lists it.
C1_UploadedHrDocumentIsStored ==
    \A f \in UploadedHrFiles :
        /\ f \in Ids(hr_collection)
        /\ f \in list_hr_documents.hr_documents

TypedGet ==
    /\ response.op = "get_insights"
    /\ response.type \notin {"None", ""}

\* C7: get_insights(t) with a type t returns no insight whose metadata type
\* differs from t.
C7_TypedInsightsOnly ==
    TypedGet =>
        \A t \in InsightTypes :
            InsightMetadata(t).type # response.type => response.body.insights[t] = 0

\* reached: insights of two types are stored and get_insights("retention")
\* returned some
C7_Witness ==
    /\ TypedGet
    /\ response.type = "retention"
    /\ response.body.insights["retention"] > 0
    /\ hr_insights_collection["sentiment"] > 0

\* C8: get_insights() returns one entry for every stored insight, and
\* get_insights(t) every stored insight of type t, however many are stored.
C8_AllInsightsReturned ==
    response.op = "get_insights" =>
        IF response.type \in {"None", ""}
        THEN response.body.insights = hr_insights_collection
        ELSE \A t \in InsightTypes :
                t = response.type => response.body.insights[t] = hr_insights_collection[t]

DeleteSucceeded(op) ==
    /\ response'.op = op
    /\ response'.status = 200
    /\ "message" \in DOMAIN response'.body

\* coll without the record f, every other record as it was
Without(after, before, f) ==
    /\ DOMAIN after = DOMAIN before \ {f}
    /\ \A g \in DOMAIN after : after[g] = before[g]

\* C9: a successful delete_resume(f) / delete_hr_document(f) takes the record
\* f, and nothing else, out of its own collection, leaves the two other
\* collections as they are, and changes nothing when f is not stored; f is
\* no longer listed.
C9_DeleteRemovesOnlyThatRecord ==
    [][ /\ DeleteSucceeded("delete_resume") =>
            /\ Without(resume_collection', resume_collection, response'.body.filename)
            /\ response'.body.filename \notin list_resumes'.resumes
            /\ hr_collection' = hr_collection
            /\ hr_insights_collection' = hr_insights_collection
            /\ (response'.body.filename \notin Ids(resume_collection)
                    => resume_collection' = resume_collection)
        /\ DeleteSucceeded("delete_hr_document") =>
            /\ Without(hr_collection', hr_collection, response'.body.filename)
            /\ response'.body.filename \notin list_hr_documents'.hr_documents
            /\ resume_collection' = resume_collection
            /\ hr_insights_collection' = hr_insights_collection
            /\ (response'.body.filename \notin Ids(hr_collection)
                    => hr_collection' = hr_collection)
      ]_vars

\* reached: f1 was deleted from the resumes, f2 is still there, and the other
\* collections hold records
C9_Witness ==
    /\ response.op = "delete_resume"
    /\ "message" \in DOMAIN response.body
    /\ response.body.filename = "f1"
    /\ Ids(resume_collection) = {"f2"}
    /\ Ids(hr_collection) = {"f1", "f2"}
    /\ InsightCount(hr_insights_collection) > 0

ClearSucceeded(op) ==
    /\ response.op = op
    /\ "message" \in DOMAIN response.body

\* C10: once clear_resumes, clear_hr_documents or clear_insights has returned
\* its success message, its collection is empty.
C10_ClearEmptiesCollection ==
    /\ ClearSucceeded("clear_resumes") => list_resumes.resumes = {}
    /\ ClearSucceeded("clear_hr_documents") => list_hr_documents.hr_documents = {}
    /\ ClearSucceeded("clear_insights") => InsightCount(hr_insights_collection) = 0

-----------------------------------------------------------------------------
(* Resume retrieval's claims.                                              *)

Retrieved == rr.op \in {"retrieve_relevant_resumes", "analyze_resume"} /\ "resumes" \in DOMAIN rr

\* w is a keyword of query: a maximal run of word characters of the
\* lower-cased query that is no stopword
IsKeywordOf(w, query) ==
    LET q == Lower(query)
    IN  \E i \in 1..Len(q) : \E j \in i..Len(q) :
            /\ w = SubSeq(q, i, j)
            /\ \A k \in i..j : q[k] \in WordChars
            /\ (i = 1 \/ q[i - 1] \notin WordChars)
            /\ (j = Len(q) \/ q[j + 1] \notin WordChars)
            /\ w \notin Stopwords

\* the hit's lower-cased text contains a keyword of the query
Matches(hit, query) ==
    \E i \in 1..Len(hit.text) : \E j \in i..Len(hit.text) :
        IsKeywordOf(SubSeq(Lower(hit.text), i, j), query)

Elements(list) == {list[i] : i \in DOMAIN list}

\* C2: retrieve_relevant_resumes returns exactly the hits whose lower-cased
\* text contains a keyword of the query, each once; a query of stopwords only
\* returns nothing.
C2_ExactlyTheKeywordHits ==
    Retrieved =>
        /\ Elements(rr.resumes) = {h \in Elements(rr.hits) : Matches(h, rr.query)}
        /\ Len(rr.resumes) = Cardinality(Elements(rr.resumes))
        /\ Len(rr.hits) <= RESUME_N_RESULTS
        /\ ((\A w \in Elements(FindWords(Lower(rr.query))) : w \in Stopwords)
                => rr.resumes = <<>>)

\* reached: a query with a stopword and a keyword kept one hit and dropped
\* another, which contains the stopword only
C2_Witness ==
    /\ Retrieved
    /\ rr.query = <<"a", " ", "b">>
    /\ Len(rr.hits) = 2
    /\ Len(rr.resumes) = 1
    /\ \E h \in Elements(rr.hits) : h.text = <<"a">>

PositionIn(list, x) == CHOOSE i \in DOMAIN list : list[i] = x

\* C3: the returned list is in non-decreasing order of score, and resumes of
\* equal score keep the order the vector search gave them.
C3_SortedByScoreStable ==
    Retrieved =>
        \A i, j \in DOMAIN rr.resumes :
            i < j =>
                /\ rr.resumes[i].score <= rr.resumes[j].score
                /\ (rr.resumes[i].score = rr.resumes[j].score
                        => PositionIn(rr.hits, rr.resumes[i]) < PositionIn(rr.hits, rr.resumes[j]))

\* reached: the search reported the farther resume first and both were kept
C3_Witness ==
    /\ Retrieved
    /\ Len(rr.resumes) = 2
    /\ rr.hits[1].score > rr.hits[2].score
    /\ rr.resumes[1] = rr.hits[2]

-----------------------------------------------------------------------------
(* HR-text retrieval's claims.                                             *)

TextRetrieved == rt.op = "retrieve_relevant_text"

FoundDocs == IF rt.store.kind = "documents" THEN rt.store.docs ELSE <<>>

\* the passages of docs at the positions in S, in order
Selection(docs, S) ==
    LET Pick[i \in 0..Len(docs)] ==
            IF i = 0 THEN <<>>
            ELSE IF i \in S THEN Append(Pick[i - 1], docs[i]) ELSE Pick[i - 1]
    IN  Pick[Len(docs)]

\* C6: retrieve_relevant_text never raises; it returns "" without querying
\* when the collection is empty, "" when the store raises, and "" when no
\* passage found is non-blank and other than "N/A"; a non-empty result is at
\* most 3 found passages joined by "\n\n" and is at least 10 characters long
\* once stripped.
C6_RetrieveTextIsSafe ==
    TextRetrieved =>
        /\ ~rt.raised
        /\ (DOMAIN hr_collection = {} => rt.value = <<>> /\ ~rt.queried)
        /\ (rt.store.kind # "documents" => rt.value = <<>>)
        /\ ((\A i \in DOMAIN FoundDocs :
                Strip(FoundDocs[i]) = <<>> \/ Strip(FoundDocs[i]) = NA) => rt.value = <<>>)
        /\ (rt.value # <<>> =>
                /\ Len(FoundDocs) <= 3
                /\ \E S \in SUBSET DOMAIN FoundDocs :
                        rt.value = Join(Selection(FoundDocs, S), <<"\n", "\n">>)
                /\ Len(Strip(rt.value)) >= 10)

\* reached: four passages are stored, three were found, one of them "N/A",
\* and the two others make a text of 10 characters
C6_Witness ==
    /\ TextRetrieved
    /\ Cardinality(DOMAIN hr_collection) = 4
    /\ Len(FoundDocs) = 3
    /\ \E i \in DOMAIN FoundDocs : FoundDocs[i] = NA
    /\ rt.value # <<>>

-----------------------------------------------------------------------------
(* The claims about the normalisation of the LLM's replies.                *)

Processed == pdr.op = "process_deepseek_response"

\* C4: process_deepseek_response is total: whatever the response is (None,
\* an empty value, a dict, JSON text, a fenced block, plain text, JSON whose
\* answer is a number, a list, null or a nested object, a value that is
\* neither a dict nor a str), it returns a str and raises no exception.
C4_ProcessIsTotal ==
    Processed => pdr.result.k = "return" /\ IsStr(pdr.result.v)

\* reached: the response is JSON text whose answer is a number, the code
\* calls strip() on the number, and the result is the fixed fallback
C4_Witness ==
    /\ Processed
    /\ pdr.response = PyStr(Dumps(PyDict(<<Item(ANSWER, PyNum(5))>>)))
    /\ SimpleContent(PyNum(5)) = Raise("AttributeError")
    /\ pdr.result = Return(NOT_SURE)

-----------------------------------------------------------------------------
(* The chat handlers' claims.                                              *)

\* the calls made for the message are the one path: the question answered,
\* the answer processed, and then at most one reply, to the sender
OnePath(handled) ==
    /\ Len(handled.calls) \in {2, 3}
    /\ handled.calls[1].call = "answer_hr_question"
    /\ handled.calls[1].arg = PyStr(handled.text)
    /\ handled.calls[2].call = "process_deepseek_response"
    /\ handled.calls[2].arg = handled.calls[1].value
    /\ (Len(handled.calls) = 3 =>
            handled.calls[3].call = "send" /\ handled.calls[3].to = handled.sender)

\* C5: every text message handle_telegram_request or handle_whatsapp_request
\* accepts is answered on one path: answer_hr_question is called once on the
\* message text, process_deepseek_response once on its result, and only then
\* at most one reply is sent, to the sender of the message.
C5_AcceptedMessageIsAnswered ==
    events.accepted => OnePath(events)

-----------------------------------------------------------------------------
(* The single-file upload's claim.                                         *)

ResumeUploaded ==
    /\ response.op = "upload_resume"
    /\ response.status = 200

\* C11: once POST /upload-resume has answered 'Resume uploaded and stored
\* successfully' for a file named f with extracted text T, the resumes
\* collection holds a record with id f whose document is T, also when a record
\* with id f existed before and when the store's add raised.
C11_UploadedResumeIsStored ==
    ResumeUploaded =>
        /\ response.filename \in Ids(resume_collection)
        /\ resume_collection[response.filename].document = response.body.resume_text

-----------------------------------------------------------------------------
(* The analysis routes' claim.                                             *)

AnalysisStored ==
    /\ response'.op \in {"retention_prediction", "analyze_feedback_api",
                         "analyze_engagement_api"}
    /\ response'.status = 200

\* C12: a step of /predict-retention, /analyze-feedback or /analyze-engagement
\* that answers '<...> analysis stored successfully.' adds exactly one record
\* to hr_insights, of the route's type (and with the returned str result as
\* its document), and leaves every earlier insight as it was; this includes
\* /analyze-engagement with an empty feedback_list.
C12_AnalysisStoresOneInsight ==
    [][AnalysisStored =>
        /\ IsStr(response'.body.result)
        /\ hr_insights_collection' =
                [hr_insights_collection EXCEPT ![response'.type] = @ + 1]]_vars

-----------------------------------------------------------------------------
(* The rate limiter's claim.                                               *)

\* C13: each client IP is allowed up to 200 requests per minute: within one
\* window the first 200 requests of an IP are served, and only requests
\* beyond the 200th are rejected.
C13_TwoHundredPerMinute ==
    response.op = "home" =>
        (response.status = 429 <=> response.nth > DOCUMENTED_LIMIT)

-----------------------------------------------------------------------------
(* The WhatsApp sessions' claims.                                          *)

SessionCalled == response.op = "get_or_create_whatsapp_session"

\* the caller's session before the call, when the caller had one
KnownBefore == response.phone_number \in Numbers(response.before)
SessionBefore == SessionOf(response.before, response.phone_number)
HoursSinceLastMessage == response.now - SessionBefore.last_message_time

\* C14: get_or_create_whatsapp_session classifies by a 24-hour window.  The
\* first call for a number creates a session with user_type 'new'; a call at
\* most 24 hours (inclusive) after the number's last message returns the same
\* session with user_type 'returning', last_message_time now and created_at
\* unchanged; a call more than 24 hours after the last message discards the
\* old session and creates a fresh one with user_type 'new'.  The session
\* returned is the one stored.
C14_SessionWindow ==
    SessionCalled =>
        /\ response.phone_number \in Numbers(whatsapp_sessions)
        /\ response.session = SessionOf(whatsapp_sessions, response.phone_number)
        /\ IF KnownBefore /\ HoursSinceLastMessage <= 24
           THEN /\ response.session.user_type = "returning"
                /\ response.session.last_message_time = response.now
                /\ response.session.created_at = SessionBefore.created_at
           ELSE /\ response.session.user_type = "new"
                /\ response.session.last_message_time = response.now
                /\ response.session.created_at = response.now

\* reached: a call exactly 24 hours after the last message of a session
\* made earlier returned that session as 'returning'
C14_Witness ==
    /\ SessionCalled
    /\ KnownBefore
    /\ HoursSinceLastMessage = 24
    /\ response.session.user_type = "returning"
    /\ response.session.created_at < response.now

\* the handler's except clause was reached before answer_hr_question: the
\* call of get_or_create_whatsapp_session (line 584) raised
SessionCallRaised ==
    /\ events.platform = "whatsapp"
    /\ events.accepted
    /\ events.calls = <<>>

\* C15: under any interleaving of get_or_create_whatsapp_session calls of
\* several request threads, with sessions at or past the 24-hour expiry,
\* every call completes without raising KeyError: none fails on an entry
\* another call has just removed or refreshed.
C15_SessionCallsNeverRaise == ~SessionCallRaised

-----------------------------------------------------------------------------
(* The claims about empty and wrapped answers.                             *)

\* an answer that is "", whitespace only or null
EmptyAnswer(v) == v = PyNone \/ (IsStr(v) /\ Strip(v.s) = <<>>)

\* {"answer": v} and nothing else
OnlyAnswer(d) == IsDict(d) /\ Len(d.kv) = 1 /\ DictHas(d, ANSWER)

\* the response is None, "" or whitespace, or it is a dict or the JSON text
\* of a dict whose only entry is an empty answer
CarriesEmptyAnswer(resp) ==
    \/ resp = PyNone
    \/ IsStr(resp) /\ Strip(resp.s) = <<>>
    \/ OnlyAnswer(resp) /\ EmptyAnswer(DictGet(resp, ANSWER))
    \/ /\ IsStr(resp)
       /\ Loads(resp.s).ok
       /\ OnlyAnswer(Loads(resp.s).v)
       /\ EmptyAnswer(DictGet(Loads(resp.s).v, ANSWER))

\* C16: whenever the response is empty or carries an empty answer (None, "",
\* whitespace; an 'answer' that is "", whitespace or null, in a dict or in
\* JSON text), process_deepseek_response returns the fixed apology.
C16_EmptyAnswerGetsApology ==
    (Processed /\ CarriesEmptyAnswer(pdr.response)) => pdr.result = Return(APOLOGY)

\* {"answer": a} as JSON text
AnswerObject(a) == Dumps(PyDict(<<Item(ANSWER, PyStr(a))>>))

\* the JSON text whose answer is the text s
WrappedText(s) == PyStr(AnswerObject(s))

\* C17: when the response is JSON text whose 'answer' is a string holding a
\* fenced json block with a JSON object with a string 'answer' A, or is
\* itself the text of such an object, process_deepseek_response returns A
\* with the asterisks removed and trimmed, not the block or the object text.
C17_WrappedAnswerIsUnwrapped ==
    \A a \in AnswerTexts :
        \A s \in {Fenced(AnswerObject(a)), AnswerObject(a)} :
            (Processed /\ pdr.response = WrappedText(s) /\ Strip(Remove(a, "*")) # <<>>)
                => pdr.result = Return(PyStr(Strip(Remove(a, "*"))))

-----------------------------------------------------------------------------
(* The claim about POST /analyze-resume.                                   *)

ResumeAnalyzed == rr.op = "analyze_resume_api"

\* the query of the request: "" when the body has none
RequestedQuery == IF rr.data.has THEN rr.data.value ELSE <<>>

\* the prompt lists the resumes in rank order
ListsInRankOrder(prompt, resumes) ==
    /\ DOMAIN prompt.formatted_resumes = DOMAIN resumes
    /\ \A i \in DOMAIN resumes :
            /\ prompt.formatted_resumes[i].rank = i
            /\ prompt.formatted_resumes[i].text = resumes[i].text
            /\ prompt.formatted_resumes[i].score = resumes[i].score

\* C18: POST /analyze-resume calls the LLM only after retrieval found a
\* matching resume.  An empty or missing query yields 400 with no retrieval
\* and no LLM call; a query with no matching resume yields 'No matching
\* resumes found' with no LLM call; otherwise the LLM is called exactly once,
\* after the retrieval, with a prompt listing the returned resumes in rank
\* order, and the 'resumes' field is the list retrieve_relevant_resumes
\* returned.
C18_LlmOnlyAfterRetrieval ==
    ResumeAnalyzed =>
        IF RequestedQuery = <<>>
        THEN rr.status = 400 /\ rr.calls = <<>>
        ELSE /\ Len(rr.calls) >= 1
             /\ rr.calls[1].call = "retrieve_relevant_resumes"
             /\ rr.calls[1].arg = RequestedQuery
             /\ IF rr.calls[1].value = <<>>
                THEN /\ Len(rr.calls) = 1
                     /\ rr.body = [error |-> "No matching resumes found"]
                ELSE /\ Len(rr.calls) = 2
                     /\ rr.calls[2].call = "query_deepseek"
                     /\ rr.calls[2].arg.query = RequestedQuery
                     /\ ListsInRankOrder(rr.calls[2].arg, rr.calls[1].value)
                     /\ rr.body.resumes = rr.calls[1].value
                     /\ rr.body.analysis = rr.calls[2].value

\* reached: two resumes matched, the search gave the farther one first, and
\* the LLM was called once with both in rank order
C18_Witness ==
    /\ ResumeAnalyzed
    /\ Len(rr.calls) = 2
    /\ Len(rr.body.resumes) = 2
    /\ rr.hits[1].score > rr.hits[2].score
    /\ rr.calls[2].arg.formatted_resumes[1].text = rr.hits[2].text
    /\ rr.calls[2].arg.formatted_resumes[1].score < rr.calls[2].arg.formatted_resumes[2].score

====
